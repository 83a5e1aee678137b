---------------------------- MODULE RetentionProofs ----------------------------
(***************************************************************************)
(* Proofs about Retention, for all intervals, branches, events, runs and   *)
(* failures: no request's detail is purged without being in an archive or  *)
(* being reported (KeptInv); the tables tell one truth of the events that  *)
(* they keep, and the roll-up counts each of a client's once (DataInv, on  *)
(* the lemmas of TablesProofs); and so what the pages split adds up again  *)
(* (PagesAddUp). Left to TLC (PagesAgree) are percentiles, filters of the  *)
(* Blocked page and visits, which a fold puts together.                    *)
(***************************************************************************)
EXTENDS Retention, TablesProofs

-----------------------------------------------------------------------------
(* The inductive invariant.                                                *)

\* What the property lets a purged request be.
Saved ==
  InFiles(files) \cup past.told \cup past.late \cup past.before
    \cup past.unreported \cup past.replaced \cup past.expired

\* Events whose detail the run under way has purged already.
Purging == IF retention.pc = "idle" THEN {} ELSE retention.purged

RetentionOK ==
  \/ retention = NoRun
  \/ /\ retention = [pc |-> retention.pc, now |-> retention.now, set |-> retention.set,
                     rows |-> retention.rows, branches |-> retention.branches,
                     purged |-> retention.purged]
     /\ retention.pc \in {"rollup", "raw", "tables"}
     /\ retention.now \in Nat /\ retention.set.raw \in Nat

\* A run of the archive ends in the step it began.
ArchivingOK ==
  \/ archiving = NoRun
  \/ /\ archiving = [pc |-> archiving.pc, now |-> archiving.now, todo |-> archiving.todo]
     /\ archiving.pc \in {"write", "commit"}
     /\ archiving.now = clock

PastOK ==
  past = [told |-> past.told, late |-> past.late, unreported |-> past.unreported,
          before |-> past.before, replaced |-> past.replaced, expired |-> past.expired,
          uncounted |-> past.uncounted, purgedTo |-> past.purgedTo]

\* Events are dated and belong to a branch; no archive covers the future.
BaseInv ==
  /\ clock \in Nat
  /\ left \in [requests : Seq(Brought), archive : Nat, purge : Nat, fault : Nat,
               first : Nat, last : Nat, asked : BOOLEAN]
  /\ \A e \in logged : e.at \in Nat /\ e.branch \in Branches
  /\ pending \subseteq logged /\ raw \subseteq logged
  /\ archivedUntil \in [Branches -> Int]
  /\ \A b \in Branches : archivedUntil[b] <= clock
  /\ RetentionOK /\ ArchivingOK /\ PastOK

\* A branch without a warning is archived past all that a run purges; so what
\* the run has purged is saved, or will be told of.
PurgedInv ==
  /\ retention.pc = "rollup" => retention.purged = {}
  /\ retention.pc \in {"raw", "tables"} =>
       \A b \in Branches \ retention.branches : RawCutoff <= archivedUntil[b]
  /\ \A e \in Purging : e \in logged /\ (e \in Saved \/ e.branch \in retention.branches)

\* What is stored and was in an archive's reach is saved, unless the run under
\* way purged it before the archive came.
PassedInv ==
  \A e \in raw \cup (logged \ pending) : Read(e) => e \in Saved \cup Purging

KeptInv == BaseInv /\ PurgedInv /\ PassedInv /\ PurgedIsArchivedOrTold

-----------------------------------------------------------------------------
(* What the tables hold.                                                   *)

\* Events that a flush has counted.
Flushed == logged \ pending

\* Each request that is to come has an id of its own.
IdInv ==
  /\ \A i, j \in DOMAIN left.requests : left.requests[i].id = left.requests[j].id => i = j
  /\ \A e \in logged : \A i \in DOMAIN left.requests : left.requests[i].id # e.id

\* A retention run ends in the step it began.
TimeInv ==
  /\ retention.pc # "idle" => retention.now = clock
  /\ archivedUntil \in [Branches -> {Never} \cup 0..clock]
  /\ past.purgedTo \in Nat

StoredInv ==
  /\ IsFiniteSet(logged)
  /\ \A e \in logged : e.at <= clock /\ e.client # None
  /\ raw \subseteq Flushed /\ InFiles(files) \subseteq Flushed
  /\ DOMAIN tables = DOMAIN Empty

Plain == Tabled \ {"client"}

\* Since when the rows of a table are complete.
KeptSince(t) ==
  CASE t \in {"minute", "band", "domain", "category"} -> clock - Aggregates
    [] t \in {"code", "http", "hierarchy", "usercat", "blockedDomain"} -> clock - Ops
    [] t = "blockedClient" -> past.purgedTo

\* A table holds what its events come to, all but those of rows that were purged.
Complete(t, kept) ==
  /\ tables[t] = Buckets(t, kept)
  /\ \A e \in TableEvents(t, Flushed) \ kept : Key(t, e).at < KeptSince(t)

TablesInv == \A t \in Plain : \E kept \in SUBSET Flushed : Complete(t, kept)

\* The rows of events by client and hour.
Hours(events) == Tallies(events, [e \in events |-> Hourly(Key("client", e))])

\* An event is in its client's minutes or in its hours, never in both; what is
\* in neither was purged with its hour, or came between a roll-up's read and its
\* delete. What a roll-up has read is still in the minutes.
RolledUpTo(kept, summed, seen) ==
  /\ tables["client"] = Buckets("client", kept)
  /\ tables["hourly"] = Hours(summed)
  /\ kept \cap summed = {}
  /\ \A e \in Flushed \ (kept \cup summed) :
       e \in past.uncounted \/ FloorHour(e.at) < clock - Aggregates
  /\ retention.pc = "rollup" =>
       /\ seen \subseteq kept /\ retention.rows = Buckets("client", seen)
       /\ \A e \in seen : FloorMinute(e.at) < retention.now - RollupAfter

ClientsInv == \E kept, summed, seen \in SUBSET Flushed : RolledUpTo(kept, summed, seen)

DataInv == IdInv /\ TimeInv /\ StoredInv /\ TablesInv /\ ClientsInv

-----------------------------------------------------------------------------
(* Lemmas.                                                                 *)

\* An event is read by the archive up to the time that is noted, or, before the
\* commit, up to the run's.
LEMMA ReadMeans ==
  ASSUME NEW e
  PROVE  Read(e) <=> \/ e.at <= archivedUntil[e.branch]
                     \/ archiving.pc = "commit" /\ Head(archiving.todo) = e.branch
                        /\ e.at <= archiving.now
BY DEF Read

\* Gone is what is logged and neither pending, nor stored, nor being purged.
LEMMA GoneMeans == Gone = logged \ (pending \cup raw \cup Purging)
BY DEF Gone, Purging

\* Steps of the archive, the flush and the log leave a retention run alone, and
\* what was saved saved.
LEMMA PurgedStays ==
  ASSUME BaseInv, PurgedInv, UNCHANGED retention, Saved \subseteq Saved', logged \subseteq logged',
         \A b \in Branches : archivedUntil[b] <= archivedUntil'[b],
         archivedUntil' \in [Branches -> Int]
  PROVE  PurgedInv'
<1>1. Purging' = Purging /\ RawCutoff' = RawCutoff
  BY DEF Purging, RawCutoff
<1>2. retention.pc \in {"raw", "tables"} => RawCutoff \in Int
  BY DEF BaseInv, RetentionOK, RawCutoff, NoRun
<1>3. ASSUME retention.pc \in {"raw", "tables"}, NEW b \in Branches \ retention.branches
      PROVE  RawCutoff <= archivedUntil'[b]
  <2>1. RawCutoff <= archivedUntil[b] /\ archivedUntil[b] <= archivedUntil'[b]
    BY <1>3 DEF PurgedInv
  <2>2. archivedUntil[b] \in Int /\ archivedUntil'[b] \in Int /\ RawCutoff \in Int
    BY <1>2, <1>3 DEF BaseInv
  <2> QED BY <2>1, <2>2
<1> QED BY <1>1, <1>3 DEF PurgedInv

\* The same of steps that change no archive and no saved event, and of what is
\* known of the stored events.
LEMMA SavedStays ==
  ASSUME PassedInv, PurgedIsArchivedOrTold, Saved \subseteq Saved', Purging \subseteq Purging',
         UNCHANGED <<logged, pending, archivedUntil, archiving>>, raw' \subseteq raw,
         raw \subseteq raw' \cup Purging'
  PROVE  PassedInv' /\ PurgedIsArchivedOrTold'
<1>1. \A e : Read(e)' <=> Read(e)
  BY DEF Read
<1>2. Gone' \subseteq Gone
  BY GoneMeans DEF Gone, Purging
<1> QED BY <1>1, <1>2 DEF PassedInv, PurgedIsArchivedOrTold, Saved

-----------------------------------------------------------------------------
(* The traffic and the clock.                                              *)

LEMMA InitKept == Init => KeptInv
<1> SUFFICES ASSUME Init PROVE KeptInv
  OBVIOUS
<1>1. NoRun.pc = "idle"
  BY DEF NoRun
<1>2. BaseInv
  <2>1. logged = {} /\ pending = {} /\ raw = {} /\ RetentionOK /\ ArchivingOK
    BY DEF Init, RetentionOK, ArchivingOK
  <2>2. left \in [requests : Seq(Brought), archive : Nat, purge : Nat, fault : Nat,
                  first : Nat, last : Nat, asked : BOOLEAN]
    BY RetentionAssumption DEF Init
  <2>3. clock \in Nat
    BY <2>2 DEF Init
  <2>4. archivedUntil \in [Branches -> Int] /\ \A b \in Branches : archivedUntil[b] <= clock
    BY <2>3 DEF Init, Never
  <2>5. PastOK
    BY DEF Init, PastOK
  <2> QED BY <2>1, <2>2, <2>3, <2>4, <2>5 DEF BaseInv
<1>3. logged = {} /\ raw = {} /\ Purging = {} /\ retention.pc = "idle"
  BY <1>1 DEF Init, Purging
<1>4. PurgedInv /\ PassedInv /\ PurgedIsArchivedOrTold
  BY <1>3 DEF PurgedInv, PassedInv, PurgedIsArchivedOrTold, Gone
<1> QED BY <1>2, <1>4 DEF KeptInv

\* A new event is pending, and an old one that comes again is no worse off.
LEMMA LogKept == KeptInv /\ Log => KeptInv'
<1> SUFFICES ASSUME KeptInv, Log PROVE KeptInv'
  OBVIOUS
<1> DEFINE e == [Head(left.requests) EXCEPT !.at = clock]
<1>1. /\ left.requests # << >> /\ left' = [left EXCEPT !.requests = Tail(@)]
      /\ logged' = logged \cup {e} /\ pending' = pending \cup {e}
      /\ UNCHANGED <<clock, raw, retention, archiving, archivedUntil, files, past>>
  BY DEF Log, jobs
<1>2. /\ left \in [requests : Seq(Brought), archive : Nat, purge : Nat, fault : Nat,
                   first : Nat, last : Nat, asked : BOOLEAN]
      /\ Head(left.requests) \in Brought /\ Tail(left.requests) \in Seq(Brought)
  BY <1>1 DEF KeptInv, BaseInv
<1>3. /\ {"at", "branch"} \subseteq DOMAIN Head(left.requests)
      /\ Head(left.requests).branch \in Branches
  BY <1>2, RetentionAssumption
<1>4. e.at = clock /\ e.branch \in Branches
  BY <1>3
<1> HIDE DEF e
<1>5. BaseInv'
  <2>1. left' \in [requests : Seq(Brought), archive : Nat, purge : Nat, fault : Nat,
                   first : Nat, last : Nat, asked : BOOLEAN]
    BY <1>1, <1>2
  <2>2. RetentionOK' /\ ArchivingOK' /\ PastOK'
    BY <1>1 DEF KeptInv, BaseInv, RetentionOK, ArchivingOK, PastOK
  <2> QED BY <1>1, <1>4, <2>1, <2>2 DEF KeptInv, BaseInv
<1>6. Saved' = Saved /\ Purging' = Purging /\ \A x : Read(x)' <=> Read(x)
  BY <1>1 DEF Saved, Purging, Read, InFiles
<1>7. PurgedInv'
  BY <1>1, <1>6, PurgedStays DEF KeptInv, BaseInv
<1>8. PassedInv'
  BY <1>1, <1>6 DEF KeptInv, PassedInv
<1>9. PurgedIsArchivedOrTold'
  <2>1. Gone' \subseteq Gone
    BY <1>1 DEF Gone
  <2> QED BY <2>1, <1>6 DEF KeptInv, PurgedIsArchivedOrTold, Saved
<1> QED BY <1>5, <1>7, <1>8, <1>9 DEF KeptInv

\* What a flush stores behind the archive's back is on record as late.
LEMMA FlushKept == KeptInv /\ Flush => KeptInv'
<1> SUFFICES ASSUME KeptInv, Flush PROVE KeptInv'
  OBVIOUS
<1>1. /\ raw' = raw \cup pending /\ pending' = {}
      /\ past' = [past EXCEPT !.late = @ \cup {e \in pending : Read(e)}]
      /\ UNCHANGED <<clock, logged, retention, archiving, archivedUntil, files, left>>
  BY DEF Flush, jobs
<1>2. PastOK
  BY DEF KeptInv, BaseInv
<1>3. /\ past' = [told |-> past.told, late |-> past.late \cup {e \in pending : Read(e)},
                  unreported |-> past.unreported, before |-> past.before,
                  replaced |-> past.replaced, expired |-> past.expired,
                  uncounted |-> past.uncounted, purgedTo |-> past.purgedTo]
  BY <1>1, <1>2 DEF PastOK
<1>4. Saved' = Saved \cup {e \in pending : Read(e)}
  BY <1>1, <1>3 DEF Saved, InFiles
<1>5. BaseInv'
  <2>1. RetentionOK' /\ ArchivingOK' /\ PastOK'
    BY <1>1, <1>3 DEF KeptInv, BaseInv, RetentionOK, ArchivingOK, PastOK
  <2> QED BY <1>1, <2>1 DEF KeptInv, BaseInv
<1>6. Purging' = Purging /\ \A x : Read(x)' <=> Read(x)
  BY <1>1 DEF Purging, Read
<1>7. PurgedInv'
  BY <1>1, <1>4, PurgedStays DEF KeptInv, BaseInv
<1>8. PassedInv'
  BY <1>1, <1>4, <1>6 DEF KeptInv, PassedInv
<1>9. PurgedIsArchivedOrTold'
  <2>1. Gone' = Gone
    BY <1>1 DEF Gone
  <2>2. Gone \subseteq Saved
    BY DEF KeptInv, PurgedIsArchivedOrTold, Saved
  <2> QED BY <1>4, <2>1, <2>2 DEF PurgedIsArchivedOrTold, Saved
<1> QED BY <1>5, <1>7, <1>8, <1>9 DEF KeptInv

\* Time passes only while no run is under way.
LEMMA TickKept == KeptInv /\ Tick => KeptInv'
<1> SUFFICES ASSUME KeptInv, Tick PROVE KeptInv'
  OBVIOUS
<1>1. /\ clock' = clock + 1 /\ archiving.pc = "idle"
      /\ UNCHANGED <<logged, pending, raw, retention, archiving, archivedUntil, files, past, left>>
  BY DEF Tick, stored, jobs
<1>2. archiving = NoRun
  BY <1>1 DEF KeptInv, BaseInv, ArchivingOK
<1>3. BaseInv'
  <2>1. RetentionOK' /\ ArchivingOK' /\ PastOK'
    BY <1>1, <1>2 DEF KeptInv, BaseInv, RetentionOK, ArchivingOK, PastOK
  <2>2. \A b \in Branches : archivedUntil'[b] <= clock'
    <3> TAKE b \in Branches
    <3>1. archivedUntil[b] \in Int /\ archivedUntil[b] <= clock /\ clock \in Nat
      BY DEF KeptInv, BaseInv
    <3> QED BY <1>1, <3>1
  <2> QED BY <1>1, <2>1, <2>2 DEF KeptInv, BaseInv
<1>4. Saved' = Saved /\ Purging' = Purging
  BY <1>1 DEF Saved, Purging, InFiles
<1>5. PurgedInv'
  <2>1. \A b \in Branches : archivedUntil[b] <= archivedUntil'[b]
    <3> TAKE b \in Branches
    <3>1. archivedUntil[b] \in Int
      BY DEF KeptInv, BaseInv
    <3> QED BY <1>1, <3>1
  <2> QED BY <1>1, <1>4, <2>1, PurgedStays DEF KeptInv, BaseInv
<1>6. PassedInv' /\ PurgedIsArchivedOrTold'
  BY <1>1, <1>4, SavedStays DEF KeptInv
<1> QED BY <1>3, <1>5, <1>6 DEF KeptInv

-----------------------------------------------------------------------------
(* The retention job.                                                      *)

\* The fields of a run that is under way.
LEMMA RunFields ==
  ASSUME BaseInv, retention.pc # "idle"
  PROVE  /\ retention = [pc |-> retention.pc, now |-> retention.now, set |-> retention.set,
                         rows |-> retention.rows, branches |-> retention.branches,
                         purged |-> retention.purged]
         /\ retention.pc \in {"rollup", "raw", "tables"}
         /\ retention.now \in Nat /\ retention.set.raw \in Nat /\ RawCutoff \in Int
         /\ Purging = retention.purged
BY DEF BaseInv, RetentionOK, NoRun, RawCutoff, Purging

LEMMA StartRetentionKept == KeptInv /\ StartRetention => KeptInv'
<1> SUFFICES ASSUME KeptInv, StartRetention PROVE KeptInv'
  OBVIOUS
<1>0. PICK set \in [raw : RawDays, lag : Lags] :
        \E rows : retention' = [pc |-> "rollup", now |-> clock, set |-> set, rows |-> rows,
                                branches |-> {}, purged |-> {}]
  BY DEF StartRetention
<1>1. PICK rows :
        retention' = [pc |-> "rollup", now |-> clock, set |-> set, rows |-> rows,
                      branches |-> {}, purged |-> {}]
  BY <1>0
<1>2. /\ retention.pc = "idle" /\ left' = [left EXCEPT !.purge = @ - 1] /\ left.purge > 0
      /\ UNCHANGED <<clock, logged, pending, raw, archivedUntil, archiving, files, past>>
  BY DEF StartRetention, stored
<1>3. BaseInv'
  <2>1. RetentionOK'
    BY <1>1, RetentionAssumption DEF RetentionOK, KeptInv, BaseInv
  <2>2. ArchivingOK' /\ PastOK'
    BY <1>2 DEF KeptInv, BaseInv, ArchivingOK, PastOK
  <2>3. left' \in [requests : Seq(Brought), archive : Nat, purge : Nat, fault : Nat,
                   first : Nat, last : Nat, asked : BOOLEAN]
    BY <1>2 DEF KeptInv, BaseInv
  <2> QED BY <1>2, <2>1, <2>2, <2>3 DEF KeptInv, BaseInv
<1>4. Saved' = Saved /\ Purging' = {} /\ Purging = {}
  BY <1>1, <1>2 DEF Saved, Purging, InFiles
<1>5. PurgedInv'
  BY <1>1, <1>4 DEF PurgedInv
<1>6. PassedInv' /\ PurgedIsArchivedOrTold'
  BY <1>2, <1>4, SavedStays DEF KeptInv
<1> QED BY <1>3, <1>5, <1>6 DEF KeptInv

\* The roll-up finds the branches that no archive covers as far as the run is
\* going to purge.
LEMMA RollupKept == KeptInv /\ Rollup => KeptInv'
<1> SUFFICES ASSUME KeptInv, Rollup PROVE KeptInv'
  OBVIOUS
<1>1. /\ retention.pc = "rollup"
      /\ retention' = [retention EXCEPT !.pc = IF ArchivingTooFarBehind THEN "tables" ELSE "raw",
                                        !.branches = FindUnarchivedBranches]
      /\ UNCHANGED <<clock, logged, pending, raw, archivedUntil, archiving, files, left>>
  BY DEF Rollup
<1>2. PICK events : past' = [past EXCEPT !.uncounted = @ \cup events]
  BY DEF Rollup
<1>3. /\ retention' = [pc |-> retention'.pc, now |-> retention.now, set |-> retention.set,
                       rows |-> retention.rows, branches |-> FindUnarchivedBranches,
                       purged |-> retention.purged]
      /\ retention'.pc \in {"tables", "raw"}
      /\ retention.now \in Nat /\ retention.set.raw \in Nat /\ RawCutoff \in Int
      /\ Purging = retention.purged /\ retention.purged = {}
  BY <1>1, RunFields DEF KeptInv, PurgedInv
<1>4. past' = [told |-> past.told, late |-> past.late, unreported |-> past.unreported,
               before |-> past.before, replaced |-> past.replaced, expired |-> past.expired,
               uncounted |-> past.uncounted \cup events, purgedTo |-> past.purgedTo]
  BY <1>2 DEF KeptInv, BaseInv, PastOK
<1>5. Saved' = Saved /\ Purging' = {} /\ RawCutoff' = RawCutoff
  BY <1>1, <1>3, <1>4 DEF Saved, Purging, InFiles, RawCutoff
<1>6. BaseInv'
  <2>1. RetentionOK' /\ ArchivingOK' /\ PastOK'
    BY <1>1, <1>3, <1>4 DEF KeptInv, BaseInv, RetentionOK, ArchivingOK, PastOK
  <2> QED BY <1>1, <2>1 DEF KeptInv, BaseInv
<1>7. PurgedInv'
  <2>1. ASSUME NEW b \in Branches \ retention'.branches PROVE RawCutoff' <= archivedUntil'[b]
    <3>1. ~(archivedUntil[b] < RawCutoff) /\ archivedUntil[b] \in Int
      BY <1>3, <2>1 DEF FindUnarchivedBranches, KeptInv, BaseInv
    <3> QED BY <1>1, <1>3, <1>5, <3>1
  <2> QED BY <1>3, <1>5, <2>1 DEF PurgedInv
<1>8. PassedInv' /\ PurgedIsArchivedOrTold'
  BY <1>1, <1>3, <1>5, SavedStays DEF KeptInv
<1> QED BY <1>6, <1>7, <1>8 DEF KeptInv

\* A batch is of rows that an archive covers, or of branches that will be named.
LEMMA PurgeRawKept == KeptInv /\ PurgeRaw => KeptInv'
<1> SUFFICES ASSUME KeptInv, PurgeRaw PROVE KeptInv'
  OBVIOUS
<1>1. PICK batch \in SUBSET {e \in raw : e.at < RawCutoff} :
        /\ raw' = raw \ batch
        /\ retention' = [retention EXCEPT !.purged = @ \cup batch,
                           !.pc = IF Cardinality(batch) < Batch THEN "tables" ELSE "raw"]
  BY DEF PurgeRaw
<1>2. /\ retention.pc = "raw"
      /\ UNCHANGED <<clock, logged, pending, archivedUntil, archiving, files, past, left>>
  BY DEF PurgeRaw
<1>3. /\ retention' = [pc |-> retention'.pc, now |-> retention.now, set |-> retention.set,
                       rows |-> retention.rows, branches |-> retention.branches,
                       purged |-> retention.purged \cup batch]
      /\ retention'.pc \in {"tables", "raw"}
      /\ retention.now \in Nat /\ retention.set.raw \in Nat /\ RawCutoff \in Int
      /\ Purging = retention.purged
  BY <1>1, <1>2, RunFields DEF KeptInv
<1>4. Saved' = Saved /\ Purging' = Purging \cup batch /\ RawCutoff' = RawCutoff
  BY <1>1, <1>2, <1>3 DEF Saved, Purging, InFiles, RawCutoff
<1>5. BaseInv'
  <2>1. RetentionOK' /\ ArchivingOK' /\ PastOK'
    BY <1>2, <1>3 DEF KeptInv, BaseInv, RetentionOK, ArchivingOK, PastOK
  <2> QED BY <1>1, <1>2, <2>1 DEF KeptInv, BaseInv
<1>6. ASSUME NEW e \in batch
      PROVE  e \in logged /\ (e \in Saved \/ e.branch \in retention.branches)
  <2>1. e \in raw /\ e.at < RawCutoff /\ e \in logged /\ e.at \in Nat /\ e.branch \in Branches
    BY DEF KeptInv, BaseInv
  <2>2. CASE e.branch \notin retention.branches
    <3>1. RawCutoff <= archivedUntil[e.branch] /\ archivedUntil[e.branch] \in Int
      BY <1>2, <2>1, <2>2 DEF KeptInv, PurgedInv, BaseInv
    <3>2. Read(e)
      BY <1>3, <2>1, <3>1 DEF Read
    <3>3. e \in Saved \cup Purging
      BY <2>1, <3>2 DEF KeptInv, PassedInv
    <3> QED BY <2>1, <3>3 DEF KeptInv, PurgedInv
  <2> QED BY <2>1, <2>2
<1>7. PurgedInv'
  <2>1. \A e \in Purging' : e \in logged /\ (e \in Saved \/ e.branch \in retention.branches)
    BY <1>4, <1>6 DEF KeptInv, PurgedInv
  <2>2. \A b \in Branches \ retention.branches : RawCutoff <= archivedUntil[b]
    BY <1>2 DEF KeptInv, PurgedInv
  <2> QED BY <1>2, <1>3, <1>4, <2>1, <2>2 DEF PurgedInv
<1>8. PassedInv' /\ PurgedIsArchivedOrTold'
  BY <1>1, <1>2, <1>4, SavedStays DEF KeptInv
<1> QED BY <1>5, <1>7, <1>8 DEF KeptInv

\* A run ends, or breaks off, when what it purged is on record.
LEMMA RunEnds ==
  ASSUME KeptInv, retention' = NoRun, Saved \subseteq Saved', Purging \subseteq Saved',
         UNCHANGED <<logged, pending, raw, archivedUntil>>,
         UNCHANGED archiving \/ archiving' = NoRun
  PROVE  PurgedInv' /\ PassedInv' /\ PurgedIsArchivedOrTold'
<1>1. Purging' = {} /\ retention'.pc = "idle"
  BY DEF Purging, NoRun
<1>2. \A e : Read(e)' => Read(e)
  BY DEF Read, NoRun
<1>3. PurgedInv'
  BY <1>1 DEF PurgedInv
<1>4. PassedInv'
  BY <1>1, <1>2 DEF KeptInv, PassedInv
<1>5. Gone' \subseteq Gone \cup Purging
  BY <1>1 DEF Gone, Purging
<1>6. Gone \subseteq Saved
  BY DEF KeptInv, PurgedIsArchivedOrTold, Saved
<1> QED BY <1>3, <1>4, <1>5, <1>6 DEF PurgedIsArchivedOrTold, Saved

LEMMA PurgeTablesKept == KeptInv /\ PurgeTables => KeptInv'
<1> SUFFICES ASSUME KeptInv, PurgeTables PROVE KeptInv'
  OBVIOUS
<1>1. /\ retention.pc = "tables" /\ retention' = NoRun
      /\ past' = [past EXCEPT
           !.told = @ \cup {e \in retention.purged : e.branch \in retention.branches},
           !.purgedTo = IF RawCutoff > @ THEN RawCutoff ELSE @]
      /\ UNCHANGED <<clock, logged, pending, raw, archivedUntil, archiving, files, left>>
  BY DEF PurgeTables
<1>2. PICK to :
        past' = [told |-> past.told \cup {e \in retention.purged : e.branch \in retention.branches},
                 late |-> past.late, unreported |-> past.unreported, before |-> past.before,
                 replaced |-> past.replaced, expired |-> past.expired,
                 uncounted |-> past.uncounted, purgedTo |-> to]
  BY <1>1 DEF KeptInv, BaseInv, PastOK
<1>3. Saved' = Saved \cup {e \in retention.purged : e.branch \in retention.branches}
  <2>1. InFiles(files') = InFiles(files)
    BY <1>1
  <2>2. /\ past'.told = past.told \cup {e \in retention.purged : e.branch \in retention.branches}
        /\ past'.late = past.late /\ past'.unreported = past.unreported
        /\ past'.before = past.before /\ past'.replaced = past.replaced
        /\ past'.expired = past.expired
    BY <1>2
  <2> QED BY <2>1, <2>2 DEF Saved
<1>4. Purging \subseteq Saved'
  BY <1>1, <1>3, RunFields DEF KeptInv, PurgedInv
<1>5. BaseInv'
  <2>1. RetentionOK' /\ ArchivingOK' /\ PastOK'
    BY <1>1, <1>2 DEF KeptInv, BaseInv, RetentionOK, ArchivingOK, PastOK
  <2> QED BY <1>1, <2>1 DEF KeptInv, BaseInv
<1> QED BY <1>1, <1>3, <1>4, <1>5, RunEnds DEF KeptInv

-----------------------------------------------------------------------------
(* The archive.                                                            *)

LEMMA StartArchiveKept ==
  ASSUME KeptInv, NEW byHand, StartArchive(byHand)
  PROVE  KeptInv'
<1>1. /\ archiving' = [pc |-> "write", now |-> clock, todo |-> Order]
      /\ archiving.pc = "idle" /\ left' = [left EXCEPT !.archive = @ - 1] /\ left.archive > 0
      /\ UNCHANGED <<clock, logged, pending, raw, retention, archivedUntil, files, past>>
  BY DEF StartArchive, stored
<1>2. BaseInv'
  <2>1. RetentionOK' /\ ArchivingOK' /\ PastOK'
    BY <1>1 DEF KeptInv, BaseInv, RetentionOK, ArchivingOK, PastOK
  <2>2. left' \in [requests : Seq(Brought), archive : Nat, purge : Nat, fault : Nat,
                   first : Nat, last : Nat, asked : BOOLEAN]
    <3>1. left \in [requests : Seq(Brought), archive : Nat, purge : Nat, fault : Nat,
                    first : Nat, last : Nat, asked : BOOLEAN]
      BY DEF KeptInv, BaseInv
    <3>2. left.archive - 1 \in Nat
      BY <1>1, <3>1
    <3>3. left' = [left EXCEPT !.archive = left.archive - 1]
      BY <1>1
    <3> QED BY <3>1, <3>2, <3>3
  <2> QED BY <1>1, <2>1, <2>2 DEF KeptInv, BaseInv
<1>3. Saved' = Saved /\ Purging' = Purging /\ \A e : Read(e)' => Read(e)
  BY <1>1 DEF Saved, Purging, InFiles, Read
<1>4. PurgedInv'
  BY <1>1, <1>3, PurgedStays DEF KeptInv, BaseInv
<1>5. PassedInv'
  BY <1>1, <1>3 DEF KeptInv, PassedInv
<1>6. PurgedIsArchivedOrTold'
  <2>1. Gone' = Gone
    BY <1>1 DEF Gone
  <2> QED BY <1>3, <2>1 DEF KeptInv, PurgedIsArchivedOrTold, Saved
<1> QED BY <1>2, <1>4, <1>5, <1>6 DEF KeptInv

\* The new file holds every row of its branch from where the last archive ended
\* to now; what its rename takes the place of is on record.
LEMMA WriteBranchKept == KeptInv /\ WriteBranch => KeptInv'
<1> SUFFICES ASSUME KeptInv, WriteBranch PROVE KeptInv'
  OBVIOUS
<1> DEFINE b     == Head(archiving.todo)
           since == Since(b)
           name  == Name(b, since)
           rows  == {e \in raw : e.branch = b /\ since <= e.at /\ e.at <= archiving.now}
           early == IF archivedUntil[b] # Never THEN {}
                    ELSE {e \in logged : e.branch = b /\ e.at < since}
           over  == RowsOf(name) \ InFiles(files')
<1>1. /\ archiving.pc = "write"
      /\ files' = [n \in DOMAIN files \cup {name} |->
                     IF n = name THEN [rows |-> rows, mtime |-> clock] ELSE files[n]]
      /\ past' = [past EXCEPT
           !.replaced = @ \cup over,
           !.before = IF archivedUntil[b] # Never THEN @
                      ELSE @ \cup {e \in logged : e.branch = b /\ e.at < since}]
      /\ archiving' = [archiving EXCEPT !.pc = "commit"]
      /\ UNCHANGED <<clock, logged, pending, raw, retention, archivedUntil, left>>
  BY DEF WriteBranch, stored
<1>2. \/ since = archiving.now - Window
      \/ /\ archivedUntil[b] # Never /\ archivedUntil[b] < archiving.now - Window
         /\ since = archivedUntil[b]
  BY DEF Since
<1>3. archivedUntil[b] # Never /\ archivedUntil[b] < archiving.now - Window => since = archivedUntil[b]
  BY DEF Since
<1>4. rows \subseteq InFiles(files') /\ InFiles(files) \subseteq InFiles(files') \cup RowsOf(name)
  <2> DEFINE new == [rows |-> rows, mtime |-> clock]
  <2>1. new.rows = rows
    OBVIOUS
  <2> HIDE DEF new, name, rows
  <2>2. /\ DOMAIN files' = DOMAIN files \cup {name} /\ files'[name] = new
        /\ \A n \in DOMAIN files : n # name => files'[n] = files[n]
    BY <1>1 DEF new
  <2>3. \A n \in DOMAIN files' : files'[n].rows \subseteq InFiles(files')
    BY DEF InFiles
  <2>4. rows \subseteq InFiles(files')
    BY <2>1, <2>2, <2>3
  <2>5. ASSUME NEW n \in DOMAIN files PROVE files[n].rows \subseteq InFiles(files') \cup RowsOf(name)
    <3>1. CASE n = name
      BY <3>1 DEF RowsOf
    <3>2. CASE n # name
      BY <2>2, <2>3, <3>2
    <3> QED BY <3>1, <3>2
  <2> QED BY <2>4, <2>5 DEF InFiles
<1> HIDE DEF since, name, rows, over
<1>5. past' = [told |-> past.told, late |-> past.late, unreported |-> past.unreported,
               before |-> past.before \cup early, replaced |-> past.replaced \cup over,
               expired |-> past.expired, uncounted |-> past.uncounted,
               purgedTo |-> past.purgedTo]
  <2>1. past.before \cup early = IF archivedUntil[b] # Never THEN past.before
          ELSE past.before \cup {e \in logged : e.branch = b /\ e.at < since}
    OBVIOUS
  <2> HIDE DEF early
  <2> QED BY <1>1, <2>1 DEF KeptInv, BaseInv, PastOK
<1> HIDE DEF b, early
<1>6. Saved \subseteq Saved' /\ rows \cup early \subseteq Saved'
  <2>1. /\ past'.told = past.told /\ past'.late = past.late
        /\ past'.unreported = past.unreported /\ past'.expired = past.expired
        /\ past'.before = past.before \cup early /\ past'.replaced = past.replaced \cup over
    BY <1>5
  <2>2. Saved' = InFiles(files') \cup past'.told \cup past'.late \cup past'.before
          \cup past'.unreported \cup past'.replaced \cup past'.expired
    BY DEF Saved
  <2>3. InFiles(files) \subseteq InFiles(files') \cup over
    BY <1>4 DEF over
  <2> QED BY <1>4, <2>1, <2>2, <2>3 DEF Saved
<1>7. /\ archiving' = [pc |-> "commit", now |-> archiving.now, todo |-> archiving.todo]
      /\ archiving.now = clock /\ archiving.now \in Nat
  BY <1>1 DEF KeptInv, BaseInv, ArchivingOK, NoRun
<1>8. BaseInv'
  <2>1. RetentionOK' /\ ArchivingOK' /\ PastOK'
    BY <1>1, <1>5, <1>7 DEF KeptInv, BaseInv, RetentionOK, ArchivingOK, PastOK
  <2> QED BY <1>1, <2>1 DEF KeptInv, BaseInv
<1>9. PurgedInv'
  BY <1>1, <1>6, PurgedStays DEF KeptInv, BaseInv
<1>10. Gone' = Gone /\ Purging' = Purging
  BY <1>1 DEF Gone, Purging
<1>11. Gone \subseteq Saved
  BY DEF KeptInv, PurgedIsArchivedOrTold, Saved
<1>12. ASSUME NEW e \in raw \cup (logged \ pending), Read(e)' PROVE e \in Saved' \cup Purging
  <2>1. CASE Read(e)
    BY <1>6, <2>1 DEF KeptInv, PassedInv
  <2>2. CASE ~Read(e)
    <3>1. ~(e.at <= archivedUntil[e.branch])
      BY <2>2 DEF Read
    <3>2. b = e.branch /\ e.at <= archiving.now
      BY <1>1, <1>7, <1>12, <3>1, ReadMeans DEF b, Read
    <3>3. e \in logged /\ e.at \in Nat /\ archivedUntil[b] \in Int /\ archiving.now \in Nat
      BY <1>7, <3>2 DEF KeptInv, BaseInv
    <3>4. CASE ~(since <= e.at)
      <4>1. archivedUntil[b] = Never
        BY <1>2, <1>3, <3>1, <3>2, <3>3, <3>4, RetentionAssumption
      <4>2. since \in Int
        BY <1>2, <3>3, RetentionAssumption
      <4>3. e \in early
        BY <3>2, <3>3, <3>4, <4>1, <4>2 DEF early
      <4> QED BY <1>6, <4>3
    <3>5. CASE since <= e.at
      <4>1. CASE e \in raw
        BY <1>6, <3>2, <3>5, <4>1 DEF rows
      <4>2. CASE e \notin raw
        <5>1. e \in Gone \cup Purging
          BY <4>2, GoneMeans
        <5> QED BY <1>6, <1>11, <5>1
      <4> QED BY <4>1, <4>2
    <3> QED BY <3>4, <3>5
  <2> QED BY <2>1, <2>2
<1>13. PassedInv'
  BY <1>1, <1>10, <1>12 DEF PassedInv
<1>14. PurgedIsArchivedOrTold'
  BY <1>6, <1>10, <1>11 DEF PurgedIsArchivedOrTold, Saved
<1> QED BY <1>8, <1>9, <1>13, <1>14 DEF KeptInv

\* The commit says no more than the file holds.
LEMMA CommitRunKept == KeptInv /\ CommitRun => KeptInv'
<1> SUFFICES ASSUME KeptInv, CommitRun PROVE KeptInv'
  OBVIOUS
<1> DEFINE b == Head(archiving.todo)
<1>1. /\ archiving.pc = "commit"
      /\ archivedUntil' = [archivedUntil EXCEPT ![b] = archiving.now]
      /\ archiving' = [pc |-> "write", now |-> archiving.now, todo |-> Tail(archiving.todo)]
      /\ UNCHANGED <<clock, logged, pending, raw, retention, files, past, left>>
  BY DEF CommitRun, stored
<1>2. archiving.now = clock /\ clock \in Nat /\ archivedUntil \in [Branches -> Int]
      /\ \A a \in Branches : archivedUntil[a] <= clock
  BY <1>1 DEF KeptInv, BaseInv, ArchivingOK, NoRun
<1>b. b = Head(archiving.todo)
  OBVIOUS
<1> HIDE DEF b
<1>3. /\ archivedUntil' \in [Branches -> Int]
      /\ \A a \in Branches : archivedUntil'[a] = IF a = b THEN archiving.now ELSE archivedUntil[a]
      /\ \A a \in Branches : archivedUntil[a] <= archivedUntil'[a] /\ archivedUntil'[a] <= clock
  <2>1. archivedUntil' \in [Branches -> Int]
    <3> DEFINE now == archiving.now
    <3>1. archivedUntil' = [archivedUntil EXCEPT ![b] = now] /\ now \in Int
      BY <1>1, <1>2
    <3> HIDE DEF now
    <3> QED BY <3>1, <1>2
  <2>2. ASSUME NEW a \in Branches
        PROVE  archivedUntil'[a] = IF a = b THEN archiving.now ELSE archivedUntil[a]
    BY <1>1, <1>2
  <2>3. ASSUME NEW a \in Branches
        PROVE  archivedUntil[a] <= archivedUntil'[a] /\ archivedUntil'[a] <= clock
    <3>1. archivedUntil[a] \in Int /\ archivedUntil[a] <= clock
      BY <1>2
    <3> QED BY <1>2, <2>2, <3>1
  <2> QED BY <2>1, <2>2, <2>3
<1>4. Saved' = Saved /\ Purging' = Purging
  BY <1>1 DEF Saved, Purging, InFiles
<1>5. BaseInv'
  <2>1. RetentionOK' /\ ArchivingOK' /\ PastOK'
    BY <1>1, <1>2 DEF KeptInv, BaseInv, RetentionOK, ArchivingOK, PastOK
  <2> QED BY <1>1, <1>3, <2>1 DEF KeptInv, BaseInv
<1>6. PurgedInv'
  BY <1>1, <1>3, <1>4, PurgedStays DEF KeptInv
<1>7. ASSUME NEW e \in raw \cup (logged \ pending), Read(e)' PROVE Read(e)
  <2>1. e.at <= archivedUntil'[e.branch] /\ e.branch \in Branches
    BY <1>1, <1>7 DEF Read, KeptInv, BaseInv
  <2>2. CASE e.branch = b
    BY <1>1, <1>b, <1>3, <2>1, <2>2 DEF Read
  <2>3. CASE e.branch # b
    BY <1>3, <2>1, <2>3 DEF Read
  <2> QED BY <2>2, <2>3
<1>8. PassedInv'
  BY <1>1, <1>4, <1>7 DEF KeptInv, PassedInv
<1>9. PurgedIsArchivedOrTold'
  <2>1. Gone' = Gone
    BY <1>1 DEF Gone
  <2> QED BY <1>4, <2>1 DEF KeptInv, PurgedIsArchivedOrTold, Saved
<1> QED BY <1>5, <1>6, <1>8, <1>9 DEF KeptInv

\* Files past their keep_days are on record when they go.
LEMMA EndArchiveKept == KeptInv /\ EndArchive => KeptInv'
<1> SUFFICES ASSUME KeptInv, EndArchive PROVE KeptInv'
  OBVIOUS
<1>1. /\ past' = [past EXCEPT !.expired = @ \cup (InFiles(files) \ InFiles(files'))]
      /\ archiving' = NoRun
      /\ UNCHANGED <<clock, logged, pending, raw, retention, archivedUntil, left>>
  BY DEF EndArchive, stored
<1>2. past' = [told |-> past.told, late |-> past.late, unreported |-> past.unreported,
               before |-> past.before, replaced |-> past.replaced,
               expired |-> past.expired \cup (InFiles(files) \ InFiles(files')),
               uncounted |-> past.uncounted, purgedTo |-> past.purgedTo]
  BY <1>1 DEF KeptInv, BaseInv, PastOK
<1>3. Saved \subseteq Saved'
  <2>1. /\ past'.told = past.told /\ past'.late = past.late
        /\ past'.unreported = past.unreported
        /\ past'.before = past.before /\ past'.replaced = past.replaced
        /\ past'.expired = past.expired \cup (InFiles(files) \ InFiles(files'))
    BY <1>2
  <2>2. Saved' = InFiles(files') \cup past'.told \cup past'.late \cup past'.before
          \cup past'.unreported \cup past'.replaced \cup past'.expired
    BY DEF Saved
  <2> QED BY <2>1, <2>2 DEF Saved
<1>4. Purging' = Purging /\ Gone' = Gone /\ \A e : Read(e)' => Read(e)
  BY <1>1 DEF Purging, Gone, Read, NoRun
<1>5. BaseInv'
  <2>1. RetentionOK' /\ ArchivingOK' /\ PastOK'
    BY <1>1, <1>2 DEF KeptInv, BaseInv, RetentionOK, ArchivingOK, PastOK
  <2> QED BY <1>1, <2>1 DEF KeptInv, BaseInv
<1>6. PurgedInv'
  BY <1>1, <1>3, PurgedStays DEF KeptInv, BaseInv
<1>7. PassedInv'
  BY <1>1, <1>3, <1>4 DEF KeptInv, PassedInv
<1>8. PurgedIsArchivedOrTold'
  BY <1>3, <1>4 DEF KeptInv, PurgedIsArchivedOrTold, Saved
<1> QED BY <1>5, <1>6, <1>7, <1>8 DEF KeptInv

-----------------------------------------------------------------------------
(* Failures.                                                               *)

\* A run that breaks off is on record for what it did not report.
LEMMA BreakOffKept ==
  ASSUME KeptInv, NEW r \in BOOLEAN, NEW a \in BOOLEAN, BreakOff(r, a)
  PROVE  KeptInv'
<1> DEFINE missed == IF r THEN retention.purged \cap {e \in logged : e.branch \in retention.branches}
                     ELSE {}
<1>1. /\ left.fault > 0 /\ left' = [left EXCEPT !.fault = @ - 1]
      /\ retention' = (IF r THEN NoRun ELSE retention)
      /\ archiving' = (IF a THEN NoRun ELSE archiving)
      /\ past' = [past EXCEPT !.unreported = @ \cup missed]
      /\ UNCHANGED <<clock, logged, pending, raw, archivedUntil, files>>
  BY DEF BreakOff, stored
<1>2. r => missed = retention.purged \cap {e \in logged : e.branch \in retention.branches}
  OBVIOUS
<1> HIDE DEF missed
<1>3. past' = [told |-> past.told, late |-> past.late,
               unreported |-> past.unreported \cup missed, before |-> past.before,
               replaced |-> past.replaced, expired |-> past.expired,
               uncounted |-> past.uncounted, purgedTo |-> past.purgedTo]
  BY <1>1 DEF KeptInv, BaseInv, PastOK
<1>4. Saved' = Saved \cup missed
  <2>1. InFiles(files') = InFiles(files)
    BY <1>1
  <2>2. /\ past'.told = past.told /\ past'.late = past.late
        /\ past'.unreported = past.unreported \cup missed
        /\ past'.before = past.before /\ past'.replaced = past.replaced
        /\ past'.expired = past.expired
    BY <1>3
  <2> QED BY <2>1, <2>2 DEF Saved
<1>5. BaseInv'
  <2>1. RetentionOK' /\ ArchivingOK' /\ PastOK'
    BY <1>1, <1>3 DEF KeptInv, BaseInv, RetentionOK, ArchivingOK, PastOK
  <2>2. left' \in [requests : Seq(Brought), archive : Nat, purge : Nat, fault : Nat,
                   first : Nat, last : Nat, asked : BOOLEAN]
    <3>1. left \in [requests : Seq(Brought), archive : Nat, purge : Nat, fault : Nat,
                    first : Nat, last : Nat, asked : BOOLEAN]
      BY DEF KeptInv, BaseInv
    <3>2. left.fault - 1 \in Nat
      BY <1>1, <3>1
    <3>3. left' = [left EXCEPT !.fault = left.fault - 1]
      BY <1>1
    <3> QED BY <3>1, <3>2, <3>3
  <2> QED BY <1>1, <2>1, <2>2 DEF KeptInv, BaseInv
<1>6. PurgedInv' /\ PassedInv' /\ PurgedIsArchivedOrTold'
  <2>1. CASE r
    <3>1. Purging \subseteq Saved'
      BY <1>2, <1>4, <2>1 DEF KeptInv, PurgedInv, Purging
    <3> QED BY <1>1, <1>4, <2>1, <3>1, RunEnds
  <2>2. CASE ~r
    <3>1. retention' = retention
      BY <1>1, <2>2
    <3>2. PurgedInv'
      BY <1>1, <1>4, <3>1, PurgedStays DEF KeptInv, BaseInv
    <3>3. Purging' = Purging /\ Gone' = Gone /\ \A e : Read(e)' => Read(e)
      BY <1>1, <3>1 DEF Purging, Gone, Read, NoRun
    <3>4. PassedInv'
      BY <1>1, <1>4, <3>3 DEF KeptInv, PassedInv
    <3>5. PurgedIsArchivedOrTold'
      BY <1>4, <3>3 DEF KeptInv, PurgedIsArchivedOrTold, Saved
    <3> QED BY <3>2, <3>4, <3>5
  <2> QED BY <2>1, <2>2
<1> QED BY <1>5, <1>6 DEF KeptInv

-----------------------------------------------------------------------------
(* What the tables hold.                                                   *)

\* The minute of a time is in its hour.
LEMMA MinuteInHour ==
  ASSUME NEW x \in Int
  PROVE  /\ FloorMinute(x) \in Int /\ FloorMinute(x) <= x
         /\ FloorHour(x) <= FloorMinute(x) /\ FloorHour(FloorMinute(x)) = FloorHour(x)
         /\ x < FloorMinute(x) + Hour
<1> DEFINE m == FloorMinute(x)
           h == FloorHour(x)
<1>1. /\ Minute \in Nat \ {0} /\ Hour \in Nat \ {0} /\ Hour % Minute = 0
  BY TablesAssumption
<1>2. /\ m \in Int /\ m <= x /\ x - Minute < m
      /\ h \in Int /\ h <= x /\ x - Hour < h
  BY FloorFacts
<1>3. PICK q \in Int : m = Minute * q
  <2>1. x - (x % Minute) = Minute * (x \div Minute) /\ x \div Minute \in Int
    BY <1>1
  <2> QED BY <2>1 DEF FloorMinute
<1>4. PICK p \in Int : h = Minute * p
  <2>1. PICK k \in Int : h = Hour * k
    <3>1. x - (x % Hour) = Hour * (x \div Hour) /\ x \div Hour \in Int
      BY <1>1
    <3> QED BY <3>1 DEF FloorHour
  <2>2. Hour = Minute * (Hour \div Minute) /\ Hour \div Minute \in Int
    BY <1>1
  <2> DEFINE n == Hour \div Minute
  <2>3. n \in Int /\ Hour = Minute * n
    BY <2>2
  <2> HIDE DEF n
  <2>4. Hour * k = Minute * (n * k) /\ n * k \in Int
    BY <1>1, <2>3
  <2> QED BY <2>1, <2>4
<1>5. h <= m
  <2> DEFINE u == Minute * q
             v == Minute * p
  <2>1. Minute * q < Minute * p => Minute * q + Minute <= Minute * p
    BY <1>1, MultiplesApart
  <2> HIDE DEF u, v
  <2>2. m = u /\ h = v /\ (u < v => u + Minute <= v)
    BY <1>3, <1>4, <2>1 DEF u, v
  <2> HIDE DEF m, h
  <2> QED BY <1>1, <1>2, <2>2
<1>6. FloorHour(m) = h
  <2>1. FloorHour(m) \in Int /\ FloorHour(m) <= m
    BY <1>2, FloorFacts
  <2>2. FloorHour(m) >= FloorHour(x) <=> m >= FloorHour(x)
    BY <1>2, HourOrder
  <2>3. FloorHour(x) >= FloorHour(m) <=> x >= FloorHour(m)
    BY <1>2, HourOrder
  <2> QED BY <1>2, <1>5, <2>1, <2>2, <2>3
<1>7. x < m + Hour
  BY <1>1, <1>2, <1>5
<1> QED BY <1>2, <1>5, <1>6, <1>7

\* Every event is counted for its client, in the minute of its time.
LEMMA ClientKeys ==
  ASSUME NEW e, e.at \in Nat
  PROVE  /\ CountedIn("client", e) /\ Key("client", e).at = FloorMinute(e.at)
         /\ Key("client", e).branch = e.branch
         /\ Key("client", e).client = e.client /\ Key("client", e).user = e.user
         /\ Hourly(Key("client", e)).at = FloorHour(e.at)
         /\ Hourly(Key("client", e)).branch = e.branch
         /\ Hourly(Key("client", e)).client = e.client
         /\ Hourly(Key("client", e)).user = e.user
<1>1. "client" \notin BlockedTables
  BY ColumnsOf
<1>2. CountedIn("client", e)
  BY <1>1 DEF CountedIn
<1>3. /\ Key("client", e).at = FloorMinute(e.at) /\ Key("client", e).branch = e.branch
      /\ Key("client", e).client = e.client /\ Key("client", e).user = e.user
  <2>1. Column("client", e) = e["client"] /\ Column("user", e) = e["user"]
    BY DEF Column
  <2>3. Key("client", e).at = FloorMinute(e.at) /\ Key("client", e).branch = e.branch
    BY <1>1, KeyFacts
  <2>4. Key("client", e)["client"] = Column("client", e) /\ Key("client", e)["user"] = Column("user", e)
    <3>1. \A c \in Columns["client"] : c # "at" => Key("client", e)[c] = Column(c, e)
      BY KeyFacts
    <3>2. Columns["client"] = {"client", "user"}
      BY ColumnsOf
    <3> QED BY <3>1, <3>2
  <2> QED BY <2>1, <2>3, <2>4
<1>4. DOMAIN Key("client", e) = {"client", "user", "at", "branch"}
  BY KeyFacts, ColumnsOf
<1> DEFINE k == Key("client", e)
<1> HIDE DEF k
<1>5. k.at = FloorMinute(e.at) /\ DOMAIN k = {"client", "user", "at", "branch"}
  BY <1>3, <1>4 DEF k
<1>6. /\ Hourly(k).at = FloorHour(e.at) /\ Hourly(k).branch = k.branch
      /\ Hourly(k).client = k.client /\ Hourly(k).user = k.user
  <2>1. e.at \in Int
    OBVIOUS
  <2>2. FloorHour(FloorMinute(e.at)) = FloorHour(e.at)
    BY <2>1, MinuteInHour
  <2> QED BY <1>5, <2>2 DEF Hourly
<1> QED BY <1>2, <1>3, <1>6 DEF k

LEMMA FlushedFinite ==
  ASSUME StoredInv, NEW events \in SUBSET logged
  PROVE  IsFiniteSet(events)
BY FS_Subset DEF StoredInv

\* An upsert of hours adds events to them.
LEMMA HoursUpsert ==
  ASSUME NEW A, NEW B, IsFiniteSet(A), IsFiniteSet(B), A \cap B = {}
  PROVE  Upsert(Hours(A), Hours(B)) = Hours(A \cup B)
<1> DEFINE key(es) == [e \in es |-> Hourly(Key("client", e))]
           all == key(A \cup B)
<1>1. /\ \A e \in A : key(A)[e] = all[e]
      /\ \A e \in B : key(B)[e] = all[e]
  OBVIOUS
<1> HIDE DEF key, all
<1>2. Tallies(A, key(A)) = Tallies(A, all) /\ Tallies(B, key(B)) = Tallies(B, all)
  BY <1>1, TalliesSame
<1>3. Upsert(Tallies(A, all), Tallies(B, all)) = Tallies(A \cup B, all)
  BY TalliesUpsert
<1>4. Hours(A) = Tallies(A, key(A)) /\ Hours(B) = Tallies(B, key(B))
      /\ Hours(A \cup B) = Tallies(A \cup B, all)
  BY DEF Hours, key, all
<1> QED BY <1>2, <1>3, <1>4

\* What the roll-up makes of rows is what it would make of their events.
LEMMA RolledUpHours ==
  ASSUME NEW events, IsFiniteSet(events), \A e \in events : e.at \in Nat
  PROVE  RolledUp(Buckets("client", events)) = Hours(events)
<1> DEFINE rows == Buckets("client", events)
           keys(h) == {k \in DOMAIN rows : Hourly(k) = h}
           hour == [e \in events |-> Hourly(Key("client", e))]
<1>1. TableEvents("client", events) = events
  BY ClientKeys DEF TableEvents
<1>2. /\ DOMAIN rows = {Key("client", e) : e \in events}
      /\ \A k \in DOMAIN rows : rows[k] = Tally(RowEvents("client", events, k))
  BY <1>1, BucketsAre
<1>3. IsFiniteSet(DOMAIN rows)
  <2> DEFINE key == [e \in events |-> Key("client", e)]
  <2>1. DOMAIN rows = {key[e] : e \in events}
    BY <1>2
  <2> HIDE DEF key
  <2> QED BY <2>1, ImageFinite
<1>4. {Hourly(k) : k \in DOMAIN rows} = {hour[e] : e \in events}
  BY <1>2
<1> HIDE DEF rows
<1>5. ASSUME NEW h, NEW f \in Figures PROVE Sum(rows, keys(h), f) = Tally(With(events, hour, h))[f]
  <2>1. keys(h) \subseteq DOMAIN rows
    OBVIOUS
  <2>2. {e \in TableEvents("client", events) : Key("client", e) \in keys(h)} = With(events, hour, h)
    BY <1>1, <1>2 DEF With
  <2> HIDE DEF keys
  <2>3. IsFiniteSet(keys(h)) /\ \A k \in keys(h) : rows[k] = Tally(RowEvents("client", events, k))
    BY <1>2, <1>3, <2>1, FS_Subset
  <2> QED BY <2>2, <2>3, TableSum
<1>6. ASSUME NEW h PROVE [f \in Figures |-> Sum(rows, keys(h), f)] = Tally(With(events, hour, h))
  BY <1>5, TallyIs
<1>7. RolledUp(rows) = [h \in {Hourly(k) : k \in DOMAIN rows} |->
                          [f \in Figures |-> Sum(rows, keys(h), f)]]
  BY DEF RolledUp
<1>8. Hours(events) = [h \in {hour[e] : e \in events} |-> Tally(With(events, hour, h))]
  BY DEF Hours, Tallies
<1> HIDE DEF keys, hour
<1> QED BY <1>4, <1>6, <1>7, <1>8 DEF rows

\* A purge of rows takes their events.
LEMMA PurgedBuckets ==
  ASSUME NEW t, NEW kept, NEW old
  PROVE  Without(Buckets(t, kept), Older(Buckets(t, kept), old))
           = Buckets(t, {e \in TableEvents(t, kept) : ~(Key(t, e).at < old)})
<1> DEFINE rows == Buckets(t, kept)
           keys == DOMAIN rows \ Older(rows, old)
           some == {e \in kept : CountedIn(t, e) /\ Key(t, e) \in keys}
<1>1. DOMAIN rows = {Key(t, e) : e \in TableEvents(t, kept)}
  BY BucketsAre
<1>2. some = {e \in TableEvents(t, kept) : ~(Key(t, e).at < old)}
  BY <1>1 DEF Older, TableEvents
<1> HIDE DEF rows
<1>3. [k \in keys |-> rows[k]] = Buckets(t, some)
  BY BucketsSome DEF rows
<1> HIDE DEF some, keys
<1>4. Without(rows, Older(rows, old)) = [k \in keys |-> rows[k]]
  BY DEF Without, keys
<1> QED BY <1>2, <1>3, <1>4 DEF rows

LEMMA PurgedHours ==
  ASSUME NEW summed, \A e \in summed : e.at \in Nat, NEW old
  PROVE  Without(Hours(summed), Older(Hours(summed), old))
           = Hours({e \in summed : ~(FloorHour(e.at) < old)})
<1> DEFINE hour == [e \in summed |-> Hourly(Key("client", e))]
           rows == Tallies(summed, hour)
           keys == DOMAIN rows \ Older(rows, old)
           some == {e \in summed : ~(FloorHour(e.at) < old)}
<1>1. DOMAIN rows = {hour[e] : e \in summed}
  BY DEF Tallies
<1>2. \A e \in summed : hour[e].at = FloorHour(e.at)
  BY ClientKeys
<1>3. WithAny(summed, hour, keys) = some
  <2> HIDE DEF hour, rows
  <2> QED BY <1>1, <1>2 DEF WithAny, Older
<1>4. \A e \in some : hour[e] = [x \in some |-> Hourly(Key("client", x))][e]
  OBVIOUS
<1> HIDE DEF hour, rows, some
<1>5. Tallies(some, hour) = Hours(some)
  BY <1>4, TalliesSame DEF Hours
<1>6. [k \in keys |-> rows[k]] = Tallies(some, hour)
  BY <1>3, TalliesSome DEF rows
<1> HIDE DEF keys
<1>7. Without(rows, Older(rows, old)) = [k \in keys |-> rows[k]]
  BY DEF Without, keys
<1>8. Hours(summed) = rows
  BY DEF Hours, rows, hour
<1> QED BY <1>5, <1>6, <1>7, <1>8 DEF some

-----------------------------------------------------------------------------
(* Every step keeps what the tables hold.                                   *)

LEMMA Columned ==
  /\ Tabled = Plain \cup {"client"} /\ "client" \notin Plain /\ "hourly" \notin Plain
  /\ DOMAIN Empty = Plain \cup {"client", "hourly"}
BY ColumnsOf DEF Plain, Tabled

\* What has been counted so far, and is no longer kept, is ever longer ago.
LEMMA KeptSinceGrows ==
  ASSUME clock \in Nat, past.purgedTo \in Nat, clock' \in Nat, past'.purgedTo \in Nat,
         clock <= clock', past.purgedTo <= past'.purgedTo, NEW t \in Plain
  PROVE  KeptSince(t) \in Int /\ KeptSince(t)' \in Int /\ KeptSince(t) <= KeptSince(t)'
<1>0. \A x, y, z \in Nat : x <= y => x - z \in Int /\ y - z \in Int /\ x - z <= y - z
  OBVIOUS
<1>1. Aggregates \in Nat /\ Ops \in Nat
  BY RetentionAssumption
<1>2. \/ t \in {"minute", "band", "domain", "category"}
      \/ t \in {"code", "http", "hierarchy", "usercat", "blockedDomain"}
      \/ t = "blockedClient"
  BY DEF Plain, Tabled
<1>3. CASE t \in {"minute", "band", "domain", "category"}
  <2>1. KeptSince(t) = clock - Aggregates /\ KeptSince(t)' = clock' - Aggregates
    BY <1>3 DEF KeptSince
  <2> QED BY <1>1, <1>0, <2>1, Zenon
<1>4. CASE t \in {"code", "http", "hierarchy", "usercat", "blockedDomain"}
  <2>1. KeptSince(t) = clock - Ops /\ KeptSince(t)' = clock' - Ops
    BY <1>4 DEF KeptSince
  <2> QED BY <1>1, <1>0, <2>1, Zenon
<1>5. CASE t = "blockedClient"
  <2>1. KeptSince(t) = past.purgedTo /\ KeptSince(t)' = past'.purgedTo
    BY <1>5 DEF KeptSince
  <2> QED BY <2>1
<1> QED BY <1>2, <1>3, <1>4, <1>5

LEMMA KeyAt ==
  ASSUME NEW t, NEW e, e.at \in Nat
  PROVE  Key(t, e).at \in Nat
<1>1. FloorHour(e.at) \in Nat /\ FloorMinute(e.at) \in Nat
  BY FloorFacts
<1>2. Key(t, e).at = IF t \in BlockedTables THEN FloorHour(e.at) ELSE FloorMinute(e.at)
  BY KeyFacts
<1> QED BY <1>1, <1>2

LEMMA TablesStay ==
  ASSUME BaseInv, TimeInv, TablesInv, Flushed' = Flushed, \A t \in Plain : tables'[t] = tables[t],
         clock' \in Nat, clock <= clock', past'.purgedTo \in Nat, past.purgedTo <= past'.purgedTo
  PROVE  TablesInv'
<1>1. SUFFICES ASSUME NEW t \in Plain PROVE \E kept \in SUBSET Flushed' : Complete(t, kept)'
  BY DEF TablesInv
<1>2. PICK kept \in SUBSET Flushed : Complete(t, kept)
  BY DEF TablesInv
<1>3. KeptSince(t) \in Int /\ KeptSince(t)' \in Int /\ KeptSince(t) <= KeptSince(t)'
  BY KeptSinceGrows DEF BaseInv, TimeInv
<1>4. ASSUME NEW e \in TableEvents(t, Flushed) \ kept PROVE Key(t, e).at < KeptSince(t)'
  <2>1. e \in logged
    BY DEF TableEvents, Flushed
  <2>2. e.at \in Nat /\ Key(t, e).at < KeptSince(t)
    BY <1>2, <2>1 DEF BaseInv, Complete
  <2>3. Key(t, e).at \in Nat
    BY <2>2, KeyAt
  <2> QED BY <1>3, <2>2, <2>3
<1>5. tables'[t] = Buckets(t, kept)
  BY <1>2 DEF Complete
<1>6. Complete(t, kept)'
  BY <1>4, <1>5 DEF Complete
<1> QED BY <1>6

LEMMA ClientsStay ==
  ASSUME BaseInv, ClientsInv, Flushed' = Flushed, clock' \in Nat, clock <= clock',
         tables'["client"] = tables["client"], tables'["hourly"] = tables["hourly"],
         past.uncounted \subseteq past'.uncounted,
         retention' = retention \/ retention'.pc # "rollup"
  PROVE  ClientsInv'
<1>1. PICK kept \in SUBSET Flushed, summed \in SUBSET Flushed, seen \in SUBSET Flushed :
        RolledUpTo(kept, summed, seen)
  BY DEF ClientsInv
<1>2. ASSUME NEW e \in Flushed \ (kept \cup summed)
      PROVE  e \in past'.uncounted \/ FloorHour(e.at) < clock' - Aggregates
  <2>1. e \in logged /\ Aggregates \in Nat
    BY RetentionAssumption DEF Flushed
  <2>2. e.at \in Nat /\ clock \in Nat
    BY <2>1 DEF BaseInv
  <2>3. FloorHour(e.at) \in Nat
    BY <2>2, FloorFacts
  <2>4. e \in past.uncounted \/ FloorHour(e.at) < clock - Aggregates
    BY <1>1 DEF RolledUpTo
  <2> QED BY <2>1, <2>2, <2>3, <2>4
<1>3. RolledUpTo(kept, summed, seen)'
  BY <1>1, <1>2 DEF RolledUpTo
<1> QED BY <1>3 DEF ClientsInv

\* Steps that leave what is counted and what is counted in alone.
LEMMA DataStays ==
  ASSUME BaseInv, DataInv, UNCHANGED <<logged, pending, tables>>, raw' \subseteq raw,
         left'.requests = left.requests, clock' \in Nat, clock <= clock',
         retention'.pc # "idle" => retention'.now = clock',
         retention' = retention \/ retention'.pc # "rollup",
         archivedUntil' \in [Branches -> {Never} \cup 0..clock'],
         past'.purgedTo = past.purgedTo, past'.uncounted = past.uncounted,
         InFiles(files') \subseteq Flushed
  PROVE  DataInv'
<1>1. Flushed' = Flushed
  BY DEF Flushed
<1>2. IdInv'
  BY DEF DataInv, IdInv
<1>3. TimeInv'
  BY DEF DataInv, TimeInv
<1>4. StoredInv'
  <2>1. ASSUME NEW e \in logged PROVE e.at <= clock' /\ e.client # None
    <3>1. e.at \in Nat /\ e.at <= clock /\ e.client # None /\ clock \in Nat
      BY DEF BaseInv, DataInv, StoredInv
    <3> QED BY <3>1
  <2> QED BY <1>1, <2>1 DEF DataInv, StoredInv
<1>5. past.purgedTo \in Nat /\ past.purgedTo <= past'.purgedTo
  BY DEF DataInv, TimeInv
<1>6. TablesInv'
  BY <1>1, <1>5, TablesStay DEF DataInv
<1>7. ClientsInv'
  BY <1>1, ClientsStay DEF DataInv
<1> QED BY <1>2, <1>3, <1>4, <1>6, <1>7 DEF DataInv

LEMMA InitData == Init => DataInv
<1> SUFFICES ASSUME Init PROVE DataInv
  OBVIOUS
<1>1. logged = {} /\ pending = {} /\ raw = {} /\ Flushed = {} /\ clock \in Nat /\ tables = Empty
  BY InitKept DEF Init, Flushed, KeptInv, BaseInv
<1>2. retention.pc = "idle"
  BY DEF Init, NoRun
<1>3. IdInv
  BY <1>1, RetentionAssumption DEF Init, IdInv
<1>4. TimeInv
  BY <1>1, <1>2, RetentionAssumption DEF Init, TimeInv
<1>5. StoredInv
  <2>1. InFiles(files) = {}
    BY DEF Init, InFiles
  <2> QED BY <1>1, <2>1, FS_EmptySet DEF StoredInv
<1>6. \A t \in Plain \cup {"client", "hourly"} : tables[t] = NoRows
  BY <1>1, Columned DEF Empty
<1>7. \A t : Buckets(t, {}) = NoRows
  <2> TAKE t
  <2>1. TableEvents(t, {}) = {}
    BY DEF TableEvents
  <2> QED BY <2>1, BucketsAre DEF NoRows
<1>8. Hours({}) = NoRows
  BY DEF Hours, Tallies, NoRows
<1>9. TablesInv
  <2>1. ASSUME NEW t \in Plain PROVE Complete(t, {})
    <3>1. TableEvents(t, Flushed) = {}
      BY <1>1 DEF TableEvents
    <3> QED BY <1>6, <1>7, <3>1 DEF Complete
  <2> QED BY <2>1 DEF TablesInv
<1>10. ClientsInv
  <2>1. RolledUpTo({}, {}, {})
    BY <1>1, <1>2, <1>6, <1>7, <1>8 DEF RolledUpTo
  <2> QED BY <2>1 DEF ClientsInv
<1> QED BY <1>3, <1>4, <1>5, <1>9, <1>10 DEF DataInv

\* A new event is none of those that came before.
LEMMA LogData == KeptInv /\ DataInv /\ Log => DataInv'
<1> SUFFICES ASSUME KeptInv, DataInv, Log PROVE DataInv'
  OBVIOUS
<1> DEFINE r == Head(left.requests)
           e == [r EXCEPT !.at = clock]
           rest == Tail(left.requests)
<1>1. /\ left.requests # << >> /\ left' = [left EXCEPT !.requests = rest]
      /\ logged' = logged \cup {e} /\ pending' = pending \cup {e}
      /\ UNCHANGED <<clock, raw, tables, retention, archiving, archivedUntil, files, past>>
  BY DEF Log, jobs
<1>2. /\ left \in [requests : Seq(Brought), archive : Nat, purge : Nat, fault : Nat,
                   first : Nat, last : Nat, asked : BOOLEAN]
      /\ BaseInv /\ pending \subseteq logged /\ clock \in Nat
  BY DEF KeptInv, BaseInv
<1>3. left.requests \in Seq(Brought)
  BY <1>2
<1>4. /\ left'.requests = rest /\ r = left.requests[1] /\ r \in Brought
      /\ 1 \in DOMAIN left.requests
  BY <1>1, <1>2, <1>3
<1>5. /\ {"id", "at", "branch", "client", "user"} \subseteq DOMAIN r
      /\ r.branch \in Branches /\ r.client # None
  BY <1>4, RetentionAssumption
<1>6. e.id = r.id /\ e.at = clock /\ e.client = r.client
  BY <1>5
<1>7. /\ DOMAIN rest = 1..(Len(left.requests) - 1) /\ DOMAIN left.requests = 1..Len(left.requests)
      /\ Len(left.requests) \in Nat
      /\ \A i \in DOMAIN rest : rest[i] = left.requests[i + 1]
  BY <1>1, <1>3
<1>8. \A i \in DOMAIN rest : i + 1 \in DOMAIN left.requests /\ i + 1 # 1
  BY <1>7
<1> HIDE DEF e, r, rest
<1>9. e \notin logged
  BY <1>4, <1>6 DEF DataInv, IdInv
<1>10. Flushed' = Flushed
  BY <1>1, <1>9 DEF Flushed
<1>11. IdInv'
  <2>1. ASSUME NEW i \in DOMAIN rest, NEW j \in DOMAIN rest, rest[i].id = rest[j].id PROVE i = j
    <3>1. i + 1 = j + 1
      BY <1>7, <1>8, <2>1 DEF DataInv, IdInv
    <3>2. i \in Int /\ j \in Int
      BY <1>7
    <3> QED BY <3>1, <3>2
  <2>2. ASSUME NEW x \in logged', NEW i \in DOMAIN rest PROVE rest[i].id # x.id
    <3>1. CASE x \in logged
      BY <1>7, <1>8, <3>1 DEF DataInv, IdInv
    <3>2. CASE x = e
      BY <1>4, <1>6, <1>7, <1>8, <3>2 DEF DataInv, IdInv
    <3> QED BY <1>1, <3>1, <3>2
  <2> QED BY <1>4, <2>1, <2>2 DEF IdInv
<1>12. TimeInv'
  BY <1>1 DEF DataInv, TimeInv
<1>13. StoredInv'
  <2>1. IsFiniteSet(logged')
    BY <1>1, FS_AddElement DEF DataInv, StoredInv
  <2> QED BY <1>1, <1>2, <1>5, <1>6, <1>10, <2>1 DEF DataInv, StoredInv
<1>14. TablesInv'
  BY <1>1, <1>2, <1>10, TablesStay DEF DataInv, TimeInv
<1>15. ClientsInv'
  BY <1>1, <1>2, <1>10, ClientsStay DEF DataInv
<1> QED BY <1>11, <1>12, <1>13, <1>14, <1>15 DEF DataInv

\* A flush adds everything that is pending to every table but the hourly one.
LEMMA FlushData == KeptInv /\ DataInv /\ Flush => DataInv'
<1> SUFFICES ASSUME KeptInv, DataInv, Flush PROVE DataInv'
  OBVIOUS
<1>1. /\ tables' = CountInto(tables, pending) /\ raw' = raw \cup pending /\ pending' = {}
      /\ UNCHANGED <<clock, logged, retention, archiving, archivedUntil, files, left>>
  BY DEF Flush, jobs
<1>2. past'.uncounted = past.uncounted /\ past'.purgedTo = past.purgedTo
  BY DEF Flush, KeptInv, BaseInv, PastOK
<1>3. pending \subseteq logged /\ clock \in Nat /\ past.purgedTo \in Nat
  BY DEF KeptInv, BaseInv, DataInv, TimeInv
<1>4. /\ Flushed' = logged /\ Flushed' = Flushed \cup pending /\ Flushed \cap pending = {}
      /\ Flushed \subseteq logged
  BY <1>1, <1>3 DEF Flushed
<1>5. \A events \in SUBSET logged : IsFiniteSet(events)
  BY FlushedFinite DEF DataInv
<1>6. /\ DOMAIN tables' = DOMAIN tables /\ tables'["hourly"] = tables["hourly"]
      /\ \A t \in Plain \cup {"client"} : tables'[t] = Upsert(tables[t], Buckets(t, pending))
  <2>1. DOMAIN tables = Plain \cup {"client", "hourly"} /\ "hourly" \notin Plain
    BY Columned DEF DataInv, StoredInv
  <2> QED BY <1>1, <2>1 DEF CountInto
<1>7. IdInv' /\ TimeInv'
  BY <1>1, <1>2 DEF DataInv, IdInv, TimeInv
<1>8. StoredInv'
  BY <1>1, <1>4, <1>6 DEF DataInv, StoredInv
<1>9. TablesInv'
  <2>1. SUFFICES ASSUME NEW t \in Plain PROVE \E kept \in SUBSET Flushed' : Complete(t, kept)'
    BY DEF TablesInv
  <2>2. PICK kept \in SUBSET Flushed : Complete(t, kept)
    BY DEF DataInv, TablesInv
  <2>3. tables'[t] = Buckets(t, kept \cup pending)
    <3>1. IsFiniteSet(kept) /\ IsFiniteSet(pending) /\ kept \cap pending = {}
      BY <1>3, <1>4, <1>5
    <3> QED BY <1>6, <2>2, <3>1, BucketsUpsert DEF Complete
  <2>4. \A e \in TableEvents(t, Flushed') \ (kept \cup pending) : Key(t, e).at < KeptSince(t)
    BY <1>4, <2>2 DEF Complete, TableEvents
  <2>5. KeptSince(t)' = KeptSince(t)
    BY <1>1, <1>2 DEF KeptSince
  <2>6. PICK more : more = kept \cup pending
    OBVIOUS
  <2>7. Complete(t, more)'
    BY <2>3, <2>4, <2>5, <2>6 DEF Complete
  <2> QED BY <1>4, <2>6, <2>7
<1>10. ClientsInv'
  <2>1. PICK kept \in SUBSET Flushed, summed \in SUBSET Flushed, seen \in SUBSET Flushed :
          RolledUpTo(kept, summed, seen)
    BY DEF DataInv, ClientsInv
  <2>2. tables'["client"] = Buckets("client", kept \cup pending)
    <3>1. IsFiniteSet(kept) /\ IsFiniteSet(pending) /\ kept \cap pending = {}
      BY <1>3, <1>4, <1>5
    <3> QED BY <1>6, <2>1, <3>1, BucketsUpsert DEF RolledUpTo
  <2>3. (kept \cup pending) \cap summed = {}
    BY <1>4, <2>1 DEF RolledUpTo
  <2>4. \A e \in Flushed' \ (kept \cup pending \cup summed) :
          e \in past'.uncounted \/ FloorHour(e.at) < clock' - Aggregates
    BY <1>1, <1>2, <1>4, <2>1 DEF RolledUpTo
  <2>5. PICK more : more = kept \cup pending
    OBVIOUS
  <2>6. RolledUpTo(more, summed, seen)'
    BY <1>1, <1>6, <2>1, <2>2, <2>3, <2>4, <2>5 DEF RolledUpTo
  <2> QED BY <1>4, <2>5, <2>6 DEF ClientsInv
<1> QED BY <1>7, <1>8, <1>9, <1>10 DEF DataInv

\* The rows that a roll-up reads are those of the events dated before its limit.
LEMMA StartRetentionData == KeptInv /\ DataInv /\ StartRetention => DataInv'
<1> SUFFICES ASSUME KeptInv, DataInv, StartRetention PROVE DataInv'
  OBVIOUS
<1> DEFINE limit == clock - RollupAfter
           old == Older(tables.client, limit)
<1>1. PICK set \in [raw : RawDays, lag : Lags] :
        retention' = [pc |-> "rollup", now |-> clock, set |-> set,
                      rows |-> [k \in old |-> tables.client[k]], branches |-> {}, purged |-> {}]
  BY DEF StartRetention
<1>2. /\ retention.pc = "idle" /\ left' = [left EXCEPT !.purge = @ - 1]
      /\ UNCHANGED <<clock, logged, pending, raw, tables, archivedUntil, archiving, files, past>>
  BY DEF StartRetention, stored
<1>3. /\ retention'.pc = "rollup" /\ retention'.now = clock
      /\ retention'.rows = [k \in old |-> tables.client[k]]
  BY <1>1
<1>4. BaseInv /\ clock \in Nat /\ Flushed' = Flushed /\ left'.requests = left.requests
  BY <1>2 DEF KeptInv, BaseInv, Flushed
<1>5. IdInv' /\ TimeInv' /\ StoredInv'
  BY <1>2, <1>3, <1>4 DEF DataInv, IdInv, TimeInv, StoredInv
<1>6. TablesInv'
  BY <1>2, <1>4, TablesStay DEF DataInv, TimeInv
<1>7. PICK kept \in SUBSET Flushed, summed \in SUBSET Flushed, was \in SUBSET Flushed :
        RolledUpTo(kept, summed, was)
  BY DEF DataInv, ClientsInv
<1> DEFINE seen == {e \in kept : FloorMinute(e.at) < limit}
<1>8. \A e \in kept : e.at \in Nat
  BY <1>4 DEF BaseInv, Flushed
<1>9. tables.client = Buckets("client", kept)
  BY <1>7 DEF RolledUpTo
<1>10. retention'.rows = Buckets("client", seen)
  <2>1. TableEvents("client", kept) = kept
    BY <1>8, ClientKeys DEF TableEvents
  <2>2. DOMAIN Buckets("client", kept) = {Key("client", e) : e \in kept}
    BY <2>1, BucketsAre
  <2>3. old = {k \in DOMAIN Buckets("client", kept) : k.at < limit}
    BY <1>9 DEF Older
  <2>4. {e \in kept : CountedIn("client", e) /\ Key("client", e) \in old} = seen
    BY <1>8, <2>2, <2>3, ClientKeys
  <2>5. old \subseteq DOMAIN Buckets("client", kept)
    BY <2>3
  <2> HIDE DEF old, seen
  <2>6. [k \in old |-> Buckets("client", kept)[k]]
          = Buckets("client", {e \in kept : CountedIn("client", e) /\ Key("client", e) \in old})
    BY <2>5, BucketsSome
  <2> QED BY <1>3, <1>9, <2>4, <2>6
<1>11. seen \subseteq kept /\ \A e \in seen : FloorMinute(e.at) < limit
  OBVIOUS
<1> HIDE DEF seen
<1>12. PICK read \in SUBSET Flushed : read = seen
  BY <1>11
<1>13. RolledUpTo(kept, summed, read)'
  BY <1>2, <1>3, <1>4, <1>7, <1>10, <1>11, <1>12 DEF RolledUpTo
<1>14. ClientsInv'
  BY <1>4, <1>13 DEF ClientsInv
<1> QED BY <1>5, <1>6, <1>14 DEF DataInv

\* What was read is in the hours; what came since, and is deleted with it, is on
\* record.
LEMMA RollupData == KeptInv /\ DataInv /\ Rollup => DataInv'
<1> SUFFICES ASSUME KeptInv, DataInv, Rollup PROVE DataInv'
  OBVIOUS
<1> DEFINE rows == retention.rows
           limit == retention.now - RollupAfter
           gone == IF rows = NoRows THEN {} ELSE Older(tables.client, limit)
           lost == {e \in Flushed : LET k == Key("client", e) IN
                      /\ k \in gone
                      /\ k \notin DOMAIN rows \/ tables.client[k] # rows[k]}
<1>1. /\ retention.pc = "rollup"
      /\ tables' = [tables EXCEPT !.hourly = Upsert(@, RolledUp(rows)),
                                  !.client = Without(@, gone)]
      /\ past' = [past EXCEPT !.uncounted = @ \cup lost]
      /\ UNCHANGED <<clock, logged, pending, raw, archivedUntil, archiving, files, left>>
  BY DEF Rollup, Flushed
<1> HIDE DEF lost
<1>2. retention'.pc # "rollup" /\ (retention'.pc # "idle" => retention'.now = retention.now)
  BY RunFields DEF Rollup, KeptInv
<1>3. past'.uncounted = past.uncounted \cup lost /\ past'.purgedTo = past.purgedTo
  BY <1>1 DEF KeptInv, BaseInv, PastOK
<1>4. BaseInv /\ clock \in Nat /\ Flushed' = Flushed /\ past.purgedTo \in Nat
  BY <1>1 DEF KeptInv, BaseInv, Flushed, DataInv, TimeInv
<1> HIDE DEF rows, gone
<1>5. /\ DOMAIN tables' = DOMAIN tables /\ \A t \in Plain : tables'[t] = tables[t]
      /\ tables'["hourly"] = Upsert(tables["hourly"], RolledUp(rows))
      /\ tables'["client"] = Without(tables["client"], gone)
  <2>1. DOMAIN tables = Plain \cup {"client", "hourly"} /\ "hourly" \notin Plain /\ "client" \notin Plain
    BY Columned DEF DataInv, StoredInv
  <2> QED BY <1>1, <2>1
<1>6. IdInv' /\ TimeInv' /\ StoredInv'
  BY <1>1, <1>2, <1>3, <1>4, <1>5 DEF DataInv, IdInv, TimeInv, StoredInv
<1>7. TablesInv'
  BY <1>1, <1>3, <1>4, <1>5, TablesStay DEF DataInv
<1>8. PICK kept \in SUBSET Flushed, summed \in SUBSET Flushed, seen \in SUBSET Flushed :
        RolledUpTo(kept, summed, seen)
  BY DEF DataInv, ClientsInv
<1>9. /\ seen \subseteq kept /\ rows = Buckets("client", seen) /\ \A e \in seen : FloorMinute(e.at) < limit
      /\ tables["client"] = Buckets("client", kept) /\ tables["hourly"] = Hours(summed)
      /\ kept \cap summed = {}
  BY <1>1, <1>8 DEF RolledUpTo, rows
<1>10. \A e \in Flushed : e.at \in Nat
  BY <1>4 DEF BaseInv, Flushed
<1>11. IsFiniteSet(kept) /\ IsFiniteSet(summed) /\ IsFiniteSet(seen)
  BY FlushedFinite DEF DataInv, Flushed
<1>12. /\ TableEvents("client", kept) = kept /\ TableEvents("client", seen) = seen
       /\ \A k : RowEvents("client", kept, k) = {e \in kept : Key("client", e) = k}
       /\ \A k : RowEvents("client", seen, k) = {e \in seen : Key("client", e) = k}
  BY <1>9, <1>10, ClientKeys DEF TableEvents, RowEvents
<1>13. /\ DOMAIN Buckets("client", kept) = {Key("client", e) : e \in kept}
       /\ DOMAIN rows = {Key("client", e) : e \in seen}
       /\ \A k \in DOMAIN Buckets("client", kept) :
            Buckets("client", kept)[k] = Tally(RowEvents("client", kept, k))
       /\ \A k \in DOMAIN rows : rows[k] = Tally(RowEvents("client", seen, k))
  BY <1>9, <1>12, BucketsAre
<1>14. gone = IF seen = {} THEN {} ELSE {Key("client", e) : e \in {x \in kept : FloorMinute(x.at) < limit}}
  <2>1. rows = NoRows <=> seen = {}
    <3>1. DOMAIN NoRows = {}
      BY DEF NoRows
    <3>2. ASSUME seen = {} PROVE rows = NoRows
      <4>1. Buckets("client", {}) = NoRows
        <5>1. TableEvents("client", {}) = {}
          BY DEF TableEvents
        <5> QED BY <5>1, BucketsAre DEF NoRows
      <4> QED BY <1>9, <3>2, <4>1
    <3> QED BY <1>13, <3>1, <3>2
  <2>2. Older(tables.client, limit) = {Key("client", e) : e \in {x \in kept : FloorMinute(x.at) < limit}}
    BY <1>9, <1>10, <1>13, ClientKeys DEF Older
  <2> QED BY <2>1, <2>2 DEF gone
<1> HIDE DEF limit
<1> DEFINE kept2 == {e \in kept : Key("client", e) \notin gone}
           summed2 == summed \cup seen
<1>15. tables'["client"] = Buckets("client", kept2)
  <2> DEFINE keys == DOMAIN Buckets("client", kept) \ gone
  <2>1. {e \in kept : CountedIn("client", e) /\ Key("client", e) \in keys} = kept2
    BY <1>10, <1>13, ClientKeys
  <2>2. keys \in SUBSET DOMAIN Buckets("client", kept)
    OBVIOUS
  <2>3. Without(tables["client"], gone) = [k \in keys |-> Buckets("client", kept)[k]]
    BY <1>9 DEF Without
  <2> HIDE DEF keys, kept2
  <2>4. [k \in keys |-> Buckets("client", kept)[k]]
          = Buckets("client", {e \in kept : CountedIn("client", e) /\ Key("client", e) \in keys})
    BY <2>2, BucketsSome
  <2> QED BY <1>5, <2>1, <2>3, <2>4
<1>16. tables'["hourly"] = Hours(summed2)
  <2>1. RolledUp(rows) = Hours(seen)
    BY <1>9, <1>10, <1>11, RolledUpHours
  <2>2. summed \cap seen = {}
    BY <1>9
  <2> QED BY <1>5, <1>9, <1>11, <2>1, <2>2, HoursUpsert
<1>17. kept2 \cap summed2 = {}
  BY <1>9, <1>14
<1>18. ASSUME NEW e \in Flushed \ (kept2 \cup summed2)
       PROVE  e \in past'.uncounted \/ FloorHour(e.at) < clock' - Aggregates
  <2>1. CASE e \notin kept
    <3>1. e \in Flushed \ (kept \cup summed)
      BY <2>1
    <3>2. e \in past.uncounted \/ FloorHour(e.at) < clock - Aggregates
      BY <1>8, <3>1 DEF RolledUpTo
    <3> QED BY <1>1, <1>3, <3>2
  <2>2. CASE e \in kept
    <3> DEFINE k == Key("client", e)
    <3>1. k \in gone /\ e \notin seen /\ k \in DOMAIN Buckets("client", kept)
      BY <1>13, <2>2
    <3>2. k \in DOMAIN rows => tables.client[k] # rows[k]
      <4>1. SUFFICES ASSUME k \in DOMAIN rows, tables.client[k] = rows[k] PROVE FALSE
        OBVIOUS
      <4> DEFINE mine == RowEvents("client", kept, k)
                 his  == RowEvents("client", seen, k)
      <4>2. Tally(mine) = Tally(his)
        BY <1>9, <1>13, <3>1, <4>1
      <4>3. e \in mine /\ e \notin his /\ his \subseteq mine /\ mine \subseteq kept
        BY <1>9, <1>12, <2>2, <3>1
      <4> HIDE DEF mine, his
      <4>4. IsFiniteSet(mine)
        BY <1>11, <4>3, FS_Subset
      <4>5. his = mine
        BY <4>2, <4>3, <4>4, TallyStrict
      <4> QED BY <4>3, <4>5
    <3>3. e \in lost
      BY <3>1, <3>2 DEF lost
    <3> QED BY <1>3, <3>3
  <2> QED BY <2>1, <2>2
<1>19. kept2 \in SUBSET Flushed /\ summed2 \in SUBSET Flushed
  OBVIOUS
<1> HIDE DEF kept2, summed2
<1>20. PICK k2 \in SUBSET Flushed, s2 \in SUBSET Flushed : k2 = kept2 /\ s2 = summed2
  BY <1>19
<1>21. RolledUpTo(k2, s2, {})'
  BY <1>2, <1>4, <1>15, <1>16, <1>17, <1>18, <1>20 DEF RolledUpTo
<1>22. ClientsInv'
  BY <1>4, <1>20, <1>21 DEF ClientsInv
<1> QED BY <1>6, <1>7, <1>22 DEF DataInv

\* A purge takes rows that are older than their table is kept.
LEMMA PurgeTablesData == KeptInv /\ DataInv /\ PurgeTables => DataInv'
<1> SUFFICES ASSUME KeptInv, DataInv, PurgeTables PROVE DataInv'
  OBVIOUS
<1>1. /\ retention.pc = "tables" /\ retention' = NoRun
      /\ tables' = [t \in DOMAIN tables |->
                      Without(tables[t], Older(tables[t], retention.now - KeptFor(t)))]
      /\ UNCHANGED <<clock, logged, pending, raw, archivedUntil, archiving, files, left>>
  BY DEF PurgeTables
<1>2. /\ past'.uncounted = past.uncounted
      /\ past'.purgedTo = IF RawCutoff > past.purgedTo THEN RawCutoff ELSE past.purgedTo
  BY DEF PurgeTables, KeptInv, BaseInv, PastOK
<1>3. /\ BaseInv /\ clock \in Nat /\ Flushed' = Flushed /\ past.purgedTo \in Nat
      /\ retention'.pc = "idle"
  BY <1>1 DEF KeptInv, BaseInv, Flushed, DataInv, TimeInv, NoRun
<1>4. retention.now = clock /\ retention.set.raw \in Nat
  BY <1>1, RunFields DEF KeptInv, DataInv, TimeInv
<1>5. RawCutoff = clock - retention.set.raw /\ RawCutoff \in Int
  BY <1>3, <1>4 DEF RawCutoff
<1>6. /\ past'.purgedTo \in Nat /\ past.purgedTo <= past'.purgedTo /\ RawCutoff <= past'.purgedTo
  BY <1>2, <1>3, <1>5
<1>7. DOMAIN tables' = DOMAIN tables /\ DOMAIN tables = Plain \cup {"client", "hourly"}
  BY <1>1, Columned DEF DataInv, StoredInv
<1>8. \A t \in DOMAIN tables :
        tables'[t] = Without(tables[t], Older(tables[t], clock - KeptFor(t)))
  BY <1>1, <1>4
<1>9. IdInv' /\ TimeInv' /\ StoredInv'
  BY <1>1, <1>3, <1>6, <1>7 DEF DataInv, IdInv, TimeInv, StoredInv
<1>10. \A e \in Flushed : e.at \in Nat
  BY <1>3 DEF BaseInv, Flushed
<1>11. TablesInv'
  <2>1. SUFFICES ASSUME NEW t \in Plain PROVE \E kept \in SUBSET Flushed' : Complete(t, kept)'
    BY DEF TablesInv
  <2>2. PICK kept \in SUBSET Flushed : Complete(t, kept)
    BY DEF DataInv, TablesInv
  <2> DEFINE cutoff == clock - KeptFor(t)
  <2>3. KeptSince(t) \in Int /\ KeptSince(t)' \in Int /\ KeptSince(t) <= KeptSince(t)'
    BY <1>1, <1>3, <1>6, KeptSinceGrows
  <2>4. cutoff \in Int /\ cutoff <= KeptSince(t)'
    <3>1. \/ t \in {"minute", "band", "domain", "category"}
          \/ t \in {"code", "http", "hierarchy", "usercat", "blockedDomain"}
          \/ t = "blockedClient"
      BY DEF Plain, Tabled
    <3>2. CASE t \in {"minute", "band", "domain", "category"}
      <4>1. KeptSince(t)' = clock - Aggregates /\ KeptFor(t) = Aggregates
        BY <1>1, <3>2 DEF KeptSince, KeptFor
      <4> QED BY <1>3, <4>1, <2>3
    <3>3. CASE t \in {"code", "http", "hierarchy", "usercat", "blockedDomain"}
      <4>1. KeptSince(t)' = clock - Ops /\ KeptFor(t) = Ops
        BY <1>1, <3>3 DEF KeptSince, KeptFor
      <4> QED BY <1>3, <4>1, <2>3
    <3>4. CASE t = "blockedClient"
      <4>1. KeptSince(t)' = past'.purgedTo /\ KeptFor(t) = retention.set.raw
        BY <3>4 DEF KeptSince, KeptFor
      <4> QED BY <1>5, <1>6, <4>1
    <3> QED BY <3>1, <3>2, <3>3, <3>4
  <2> HIDE DEF cutoff
  <2> DEFINE left2 == {e \in TableEvents(t, kept) : ~(Key(t, e).at < cutoff)}
  <2>5. tables'[t] = Buckets(t, left2)
    <3>1. tables[t] = Buckets(t, kept)
      BY <2>2 DEF Complete
    <3>2. tables'[t] = Without(tables[t], Older(tables[t], cutoff))
      BY <1>7, <1>8 DEF cutoff
    <3> QED BY <3>1, <3>2, PurgedBuckets
  <2>6. ASSUME NEW e \in TableEvents(t, Flushed) \ left2 PROVE Key(t, e).at < KeptSince(t)'
    <3>1. e.at \in Nat /\ CountedIn(t, e) /\ e \in Flushed
      BY <1>10 DEF TableEvents
    <3>2. Key(t, e).at \in Nat
      BY <3>1, KeyAt
    <3>3. CASE e \in kept
      <4>1. Key(t, e).at < cutoff
        BY <3>1, <3>3 DEF TableEvents
      <4> QED BY <2>3, <2>4, <3>2, <4>1
    <3>4. CASE e \notin kept
      <4>1. Key(t, e).at < KeptSince(t)
        BY <2>2, <3>4 DEF Complete
      <4> QED BY <2>3, <3>2, <4>1
    <3> QED BY <3>3, <3>4
  <2>7. left2 \in SUBSET Flushed
    BY DEF TableEvents
  <2> HIDE DEF left2
  <2>8. PICK still \in SUBSET Flushed : still = left2
    BY <2>7
  <2>9. Complete(t, still)'
    BY <1>3, <2>5, <2>6, <2>8 DEF Complete
  <2> QED BY <1>3, <2>8, <2>9
<1>12. ClientsInv'
  <2>1. PICK kept \in SUBSET Flushed, summed \in SUBSET Flushed, seen \in SUBSET Flushed :
          RolledUpTo(kept, summed, seen)
    BY DEF DataInv, ClientsInv
  <2> DEFINE cutoff == clock - Aggregates
             kept2 == {e \in TableEvents("client", kept) : ~(Key("client", e).at < cutoff)}
             summed2 == {e \in summed : ~(FloorHour(e.at) < cutoff)}
  <2>2. cutoff \in Int
    BY <1>3, RetentionAssumption
  <2>3. clock - KeptFor("client") = cutoff /\ clock - KeptFor("hourly") = cutoff
    BY DEF KeptFor
  <2> HIDE DEF cutoff
  <2>4. tables'["client"] = Buckets("client", kept2)
    <3>1. tables["client"] = Buckets("client", kept)
      BY <2>1 DEF RolledUpTo
    <3>2. tables'["client"] = Without(tables["client"], Older(tables["client"], cutoff))
      BY <1>7, <1>8, <2>3
    <3> QED BY <3>1, <3>2, PurgedBuckets
  <2>5. tables'["hourly"] = Hours(summed2)
    <3>1. tables["hourly"] = Hours(summed)
      BY <2>1 DEF RolledUpTo
    <3>2. tables'["hourly"] = Without(tables["hourly"], Older(tables["hourly"], cutoff))
      BY <1>7, <1>8, <2>3
    <3> QED BY <1>10, <3>1, <3>2, PurgedHours
  <2>6. ASSUME NEW e \in Flushed \ (kept2 \cup summed2)
        PROVE  e \in past'.uncounted \/ FloorHour(e.at) < clock' - Aggregates
    <3>1. /\ e.at \in Nat /\ FloorHour(e.at) \in Nat /\ FloorMinute(e.at) \in Int
          /\ FloorHour(e.at) <= FloorMinute(e.at)
      <4>1. e.at \in Nat /\ e.at \in Int
        BY <1>10
      <4> QED BY <4>1, FloorFacts, MinuteInHour
    <3>2. clock' - Aggregates = cutoff
      BY <1>1 DEF cutoff
    <3>3. CASE e \in kept
      <4>1. FloorMinute(e.at) < cutoff
        BY <3>1, <3>3, ClientKeys DEF TableEvents
      <4> QED BY <2>2, <3>1, <3>2, <4>1
    <3>4. CASE e \in summed
      BY <3>2, <3>4
    <3>5. CASE e \notin kept \cup summed
      <4>1. e \in past.uncounted \/ FloorHour(e.at) < cutoff
        BY <2>1, <3>5 DEF RolledUpTo, cutoff
      <4> QED BY <1>2, <3>2, <4>1
    <3> QED BY <3>3, <3>4, <3>5
  <2>7. kept2 \in SUBSET Flushed /\ summed2 \in SUBSET Flushed /\ kept2 \cap summed2 = {}
    BY <2>1 DEF TableEvents, RolledUpTo
  <2> HIDE DEF kept2, summed2
  <2>8. PICK k2 \in SUBSET Flushed, s2 \in SUBSET Flushed : k2 = kept2 /\ s2 = summed2
    BY <2>7
  <2>9. RolledUpTo(k2, s2, {})'
    BY <1>3, <2>4, <2>5, <2>6, <2>7, <2>8 DEF RolledUpTo
  <2> QED BY <1>3, <2>8, <2>9 DEF ClientsInv
<1> QED BY <1>9, <1>11, <1>12 DEF DataInv

\* The purge of raw rows, the archive, time and failures leave the tables alone.
LEMMA OtherData ==
  ASSUME KeptInv, DataInv,
         Tick \/ PurgeRaw \/ (\E byHand \in BOOLEAN : StartArchive(byHand)) \/ WriteBranch
           \/ CommitRun \/ EndArchive \/ (\E r, a \in BOOLEAN : BreakOff(r, a)) \/ UNCHANGED vars
  PROVE  DataInv'
<1>1. /\ BaseInv /\ clock \in Nat
      /\ archivedUntil \in [Branches -> {Never} \cup 0..clock]
      /\ InFiles(files) \subseteq Flushed /\ raw \subseteq Flushed
      /\ (retention.pc # "idle" => retention.now = clock)
  BY RetentionAssumption DEF KeptInv, BaseInv, DataInv, TimeInv, StoredInv
<1>2. CASE Tick
  <2>1. /\ clock' = clock + 1 /\ retention.pc = "idle"
        /\ UNCHANGED <<logged, pending, raw, tables, retention, archivedUntil, files, past, left>>
    BY <1>2 DEF Tick, stored, jobs
  <2>2. clock' \in Nat /\ clock <= clock'
    BY <1>1, <2>1
  <2>3. 0..clock \subseteq 0..clock'
    BY <1>1, <2>1
  <2>4. archivedUntil' \in [Branches -> {Never} \cup 0..clock']
    BY <1>1, <2>1, <2>3
  <2> QED BY <1>1, <2>1, <2>2, <2>4, DataStays
<1>3. CASE PurgeRaw
  <2>1. /\ UNCHANGED <<clock, logged, pending, tables, archivedUntil, files, past, left>>
        /\ raw' \subseteq raw
    BY <1>3 DEF PurgeRaw
  <2>2. retention'.pc # "rollup" /\ retention'.now = clock
    BY <1>1, <1>3, RunFields DEF PurgeRaw
  <2> QED BY <1>1, <2>1, <2>2, DataStays
<1>4. CASE \E byHand \in BOOLEAN : StartArchive(byHand)
  <2>1. /\ UNCHANGED <<clock, logged, pending, raw, tables, retention, archivedUntil, files, past>>
        /\ left' = [left EXCEPT !.archive = @ - 1]
    BY <1>4 DEF StartArchive, stored
  <2>2. left'.requests = left.requests
    BY <1>1, <2>1 DEF BaseInv
  <2> QED BY <1>1, <2>1, <2>2, DataStays
<1>5. CASE WriteBranch
  <2>1. UNCHANGED <<clock, logged, pending, raw, tables, retention, archivedUntil, left>>
    BY <1>5 DEF WriteBranch, stored
  <2>2. past'.purgedTo = past.purgedTo /\ past'.uncounted = past.uncounted
    BY <1>1, <1>5 DEF WriteBranch, BaseInv, PastOK
  <2>3. PICK name, rows :
          /\ rows \subseteq raw
          /\ files' = [n \in DOMAIN files \cup {name} |->
                         IF n = name THEN [rows |-> rows, mtime |-> clock] ELSE files[n]]
    <3> DEFINE b == Head(archiving.todo)
               since == Since(b)
               name == Name(b, since)
               rows == {e \in raw : e.branch = b /\ since <= e.at /\ e.at <= archiving.now}
    <3>1. files' = [n \in DOMAIN files \cup {name} |->
                      IF n = name THEN [rows |-> rows, mtime |-> clock] ELSE files[n]]
      BY <1>5 DEF WriteBranch
    <3>2. rows \subseteq raw
      OBVIOUS
    <3> HIDE DEF rows, name
    <3> QED BY <3>1, <3>2
  <2>4. \A n \in DOMAIN files' : files'[n].rows \subseteq Flushed
    <3>1. ASSUME NEW n \in DOMAIN files PROVE files[n].rows \subseteq Flushed
      BY <1>1 DEF InFiles
    <3> QED BY <1>1, <2>3, <3>1
  <2>5. InFiles(files') \subseteq Flushed
    BY <2>4 DEF InFiles
  <2> QED BY <1>1, <2>1, <2>2, <2>5, DataStays
<1>6. CASE CommitRun
  <2>1. /\ UNCHANGED <<clock, logged, pending, raw, tables, retention, files, past, left>>
        /\ archivedUntil' = [archivedUntil EXCEPT ![Head(archiving.todo)] = archiving.now]
        /\ archiving.pc = "commit"
    BY <1>6 DEF CommitRun, stored
  <2>2. archiving.now = clock
    BY <1>1, <2>1 DEF BaseInv, ArchivingOK, NoRun
  <2>3. archivedUntil' \in [Branches -> {Never} \cup 0..clock]
    <3> DEFINE b == Head(archiving.todo)
    <3>1. clock \in {Never} \cup 0..clock /\ archivedUntil' = [archivedUntil EXCEPT ![b] = clock]
      BY <1>1, <2>1, <2>2
    <3> HIDE DEF b
    <3> QED BY <1>1, <3>1
  <2> QED BY <1>1, <2>1, <2>3, DataStays
<1>7. CASE EndArchive
  <2>1. /\ UNCHANGED <<clock, logged, pending, raw, tables, retention, archivedUntil, left>>
        /\ files' = [n \in {m \in DOMAIN files : files[m].mtime >= clock - Keep} |-> files[n]]
    BY <1>7 DEF EndArchive, stored
  <2>2. past'.purgedTo = past.purgedTo /\ past'.uncounted = past.uncounted
    BY <1>1, <1>7 DEF EndArchive, BaseInv, PastOK
  <2>3. InFiles(files') \subseteq Flushed
    BY <1>1, <2>1 DEF InFiles
  <2> QED BY <1>1, <2>1, <2>2, <2>3, DataStays
<1>8. CASE \E r, a \in BOOLEAN : BreakOff(r, a)
  <2>1. PICK r \in BOOLEAN, a \in BOOLEAN : BreakOff(r, a)
    BY <1>8
  <2>2. /\ UNCHANGED <<clock, logged, pending, raw, tables, archivedUntil, files>>
        /\ left' = [left EXCEPT !.fault = @ - 1]
        /\ retention' = retention \/ retention' = NoRun
    BY <2>1 DEF BreakOff, stored
  <2>3. left'.requests = left.requests
    BY <1>1, <2>2 DEF BaseInv
  <2>4. past'.purgedTo = past.purgedTo /\ past'.uncounted = past.uncounted
    BY <1>1, <2>1 DEF BreakOff, BaseInv, PastOK
  <2>5. NoRun.pc = "idle"
    BY DEF NoRun
  <2> QED BY <1>1, <2>2, <2>3, <2>4, <2>5, DataStays
<1>9. CASE UNCHANGED vars
  <2>1. UNCHANGED <<clock, logged, pending, raw, tables, retention, archivedUntil, files, past, left>>
    BY <1>9 DEF vars, stored, jobs
  <2> QED BY <1>1, <2>1, DataStays
<1> QED BY <1>2, <1>3, <1>4, <1>5, <1>6, <1>7, <1>8, <1>9

LEMMA NextData == KeptInv /\ DataInv /\ [Next]_vars => DataInv'
<1> SUFFICES ASSUME KeptInv, DataInv, [Next]_vars PROVE DataInv'
  OBVIOUS
<1>1. CASE Log \/ Flush
  BY <1>1, LogData, FlushData
<1>2. CASE StartRetention \/ Rollup \/ PurgeTables
  BY <1>2, StartRetentionData, RollupData, PurgeTablesData
<1>3. CASE Tick \/ PurgeRaw \/ WriteBranch \/ CommitRun \/ EndArchive \/ UNCHANGED vars
  BY <1>3, OtherData
<1>4. CASE StartArchive(FALSE) \/ StartArchive(TRUE)
  <2>1. \E byHand \in BOOLEAN : StartArchive(byHand)
    BY <1>4
  <2> QED BY <2>1, OtherData
<1>5. CASE RetentionFails \/ ArchiveFails \/ Crash
  <2>1. \E r, a \in BOOLEAN : BreakOff(r, a)
    BY <1>5 DEF RetentionFails, ArchiveFails, Crash
  <2> QED BY <2>1, OtherData
<1> QED BY <1>1, <1>2, <1>3, <1>4, <1>5 DEF Next

-----------------------------------------------------------------------------
(* What the rows of a range come to.                                        *)

LEMMA TallyCounters ==
  ASSUME StoredInv, NEW events \in SUBSET logged
  PROVE  Tally(events) \in Counters
<1>1. IsFiniteSet(logged) /\ IsFiniteSet(events)
  BY FlushedFinite DEF StoredInv
<1>2. Cardinality(events) <= Cardinality(logged) /\ Cardinality(logged) \in Nat
  BY <1>1, FS_Subset, FS_CardinalityType
<1>3. ASSUME NEW f \in Figures PROVE Tally(events)[f] \in 0..Cardinality(logged)
  <2>1. Tally(events)[f] \in Nat /\ Tally(events)[f] <= Cardinality(events) /\ Cardinality(events) \in Nat
    BY <1>1, TallyType
  <2> QED BY <1>2, <2>1
<1>4. DOMAIN Tally(events) = Figures /\ Tally(events) = [f \in Figures |-> Tally(events)[f]]
  <2>1. Tally(events) = [f \in Figures |-> Cardinality({e \in events : Is(f, e)})]
    BY TallyIs
  <2> HIDE DEF Figures
  <2> QED BY <2>1
<1> HIDE DEF Figures
<1> QED BY <1>3, <1>4 DEF Counters

LEMMA DataTypes == KeptInv /\ DataInv => TypeOK
<1> SUFFICES ASSUME KeptInv, DataInv PROVE TypeOK
  OBVIOUS
<1>1. clock \in Nat
  BY DEF KeptInv, BaseInv
<1>2. retention.pc \in {"idle", "rollup", "raw", "tables"} /\ archiving.pc \in {"idle", "write", "commit"}
  BY DEF KeptInv, BaseInv, RetentionOK, ArchivingOK, NoRun
<1>3. /\ pending \subseteq logged /\ raw \subseteq logged /\ pending \cap raw = {}
      /\ DOMAIN tables = DOMAIN Empty /\ InFiles(files) \subseteq logged \ pending
      /\ archivedUntil \in [Branches -> {Never} \cup 0..clock]
  BY DEF KeptInv, BaseInv, DataInv, StoredInv, TimeInv, Flushed
<1>4. ASSUME NEW t \in DOMAIN tables, NEW k \in DOMAIN tables[t] PROVE tables[t][k] \in Counters
  <2>1. PICK events \in SUBSET logged : tables[t][k] = Tally(events)
    <3>1. CASE t \in Plain \cup {"client"}
      <4>1. PICK kept \in SUBSET Flushed : tables[t] = Buckets(t, kept)
        BY <3>1 DEF DataInv, TablesInv, Complete, ClientsInv, RolledUpTo
      <4>2. k \in {Key(t, e) : e \in TableEvents(t, kept)} /\ tables[t][k] = Tally(RowEvents(t, kept, k))
        BY <4>1, BucketsAre
      <4>3. RowEvents(t, kept, k) \in SUBSET logged
        BY DEF RowEvents, Flushed
      <4> QED BY <4>2, <4>3
    <3>2. CASE t = "hourly"
      <4>1. PICK summed \in SUBSET Flushed : tables[t] = Hours(summed)
        BY <3>2 DEF DataInv, ClientsInv, RolledUpTo
      <4> DEFINE hour == [e \in summed |-> Hourly(Key("client", e))]
      <4>2. With(summed, hour, k) \in SUBSET logged
        BY DEF With, Flushed
      <4>3. tables[t][k] = Tally(With(summed, hour, k))
        BY <4>1 DEF Hours, Tallies
      <4> QED BY <4>2, <4>3
    <3> QED BY <1>3, <3>1, <3>2, Columned
  <2> QED BY <2>1, TallyCounters DEF DataInv
<1> QED BY <1>1, <1>2, <1>3, <1>4 DEF TypeOK

\* Rows that no purge has come near hold all their events.
LEMMA RowsTrue ==
  ASSUME BaseInv, DataInv, NEW t \in Plain, NEW keys \in SUBSET DOMAIN tables[t],
         \A k \in keys : ~(k.at < KeptSince(t)), NEW f \in Figures
  PROVE  /\ IsFiniteSet(keys)
         /\ \A k \in keys : /\ tables[t][k] = Tally(RowEvents(t, Flushed, k))
                            /\ tables[t][k][f] \in Nat
                            /\ \E e \in Flushed : CountedIn(t, e) /\ Key(t, e) = k
         /\ Sum(tables[t], keys, f) = Tally({e \in TableEvents(t, Flushed) : Key(t, e) \in keys})[f]
<1>1. PICK kept \in SUBSET Flushed : Complete(t, kept)
  BY DEF DataInv, TablesInv
<1>2. IsFiniteSet(Flushed) /\ IsFiniteSet(kept)
  BY FlushedFinite DEF DataInv, Flushed
<1>3. /\ DOMAIN tables[t] = {Key(t, e) : e \in TableEvents(t, kept)}
      /\ \A k \in DOMAIN tables[t] : tables[t][k] = Tally(RowEvents(t, kept, k))
  <2>1. tables[t] = Buckets(t, kept)
    BY <1>1 DEF Complete
  <2> QED BY <2>1, BucketsAre
<1>4. IsFiniteSet(keys)
  <2>1. IsFiniteSet(TableEvents(t, kept))
    BY <1>2, FS_Subset DEF TableEvents
  <2> DEFINE key == [e \in TableEvents(t, kept) |-> Key(t, e)]
  <2>2. DOMAIN tables[t] = {key[e] : e \in TableEvents(t, kept)}
    BY <1>3
  <2> HIDE DEF key
  <2>3. IsFiniteSet(DOMAIN tables[t])
    BY <2>1, <2>2, ImageFinite
  <2> QED BY <2>3, FS_Subset
<1>5. ASSUME NEW k \in keys PROVE tables[t][k] = Tally(RowEvents(t, Flushed, k))
  <2>1. RowEvents(t, Flushed, k) = RowEvents(t, kept, k)
    BY <1>1 DEF Complete, RowEvents, TableEvents
  <2> QED BY <1>3, <2>1
<1>6. ASSUME NEW k \in keys PROVE tables[t][k][f] \in Nat
  <2>1. IsFiniteSet(RowEvents(t, Flushed, k))
    BY <1>2, FS_Subset DEF RowEvents
  <2> QED BY <1>5, <2>1, TallyType
<1>7. ASSUME NEW k \in keys PROVE \E e \in Flushed : CountedIn(t, e) /\ Key(t, e) = k
  BY <1>3 DEF TableEvents
<1>8. Sum(tables[t], keys, f) = Tally({e \in TableEvents(t, Flushed) : Key(t, e) \in keys})[f]
  BY <1>2, <1>4, <1>5, TableSum
<1> QED BY <1>4, <1>5, <1>6, <1>7, <1>8

\* An event of a range is in a row of the range.
LEMMA RangeKeys ==
  ASSUME BaseInv, DataInv, NEW t \in Plain, NEW s \in Int, NEW u \in Int, NEW scope,
         s >= KeptSince(t), KeptSince(t) \in Int
  PROVE  /\ \A k \in InRange(tables[t], s, u, scope) : k \in DOMAIN tables[t] /\ ~(k.at < KeptSince(t))
         /\ \A e \in Flushed : CountedIn(t, e) =>
              (Key(t, e) \in InRange(tables[t], s, u, scope) <=>
                 s <= Key(t, e).at /\ Key(t, e).at <= u /\ BranchMatches(e.branch, scope))
<1>1. PICK kept \in SUBSET Flushed : Complete(t, kept)
  BY DEF DataInv, TablesInv
<1>2. DOMAIN tables[t] = {Key(t, e) : e \in TableEvents(t, kept)}
  <2>1. tables[t] = Buckets(t, kept)
    BY <1>1 DEF Complete
  <2> QED BY <2>1, BucketsAre
<1>3. \A e \in Flushed : Key(t, e).at \in Nat /\ Key(t, e).branch = e.branch
  BY KeyAt, KeyFacts DEF BaseInv, Flushed
<1>4. ASSUME NEW e \in Flushed, CountedIn(t, e), s <= Key(t, e).at PROVE Key(t, e) \in DOMAIN tables[t]
  <2>1. ~(Key(t, e).at < KeptSince(t))
    BY <1>3, <1>4
  <2>2. e \in TableEvents(t, Flushed)
    BY <1>4 DEF TableEvents
  <2>3. e \in kept
    BY <1>1, <2>1, <2>2 DEF Complete
  <2> QED BY <1>2, <1>4, <2>3 DEF TableEvents
<1>5. ASSUME NEW k \in InRange(tables[t], s, u, scope) PROVE k \in DOMAIN tables[t] /\ ~(k.at < KeptSince(t))
  <2>1. k \in DOMAIN tables[t] /\ s <= k.at
    BY DEF InRange
  <2>2. PICK e \in kept : Key(t, e) = k
    BY <1>2, <2>1 DEF TableEvents
  <2> QED BY <1>3, <2>1, <2>2
<1>6. ASSUME NEW e \in Flushed, CountedIn(t, e)
      PROVE  Key(t, e) \in InRange(tables[t], s, u, scope) <=>
               s <= Key(t, e).at /\ Key(t, e).at <= u /\ BranchMatches(e.branch, scope)
  BY <1>3, <1>4, <1>6 DEF InRange
<1> QED BY <1>5, <1>6

\* In tables by the minute, a range holds the events dated in it.
LEMMA InMinutes ==
  ASSUME BaseInv, DataInv, NEW t \in Plain, t \notin BlockedTables, NEW s \in Int, NEW u \in Int,
         NEW scope, s >= KeptSince(t), KeptSince(t) \in Int, NEW e \in Flushed
  PROVE  /\ Key(t, e).at = FloorMinute(e.at)
         /\ CountedIn(t, e) =>
              (Key(t, e) \in InRange(tables[t], s, u, scope) <=> e \in CountedByMinute(s, u, scope))
<1>1. Key(t, e).at = FloorMinute(e.at)
  BY KeyFacts
<1>2. CountedIn(t, e) =>
        (Key(t, e) \in InRange(tables[t], s, u, scope)
           <=> s <= FloorMinute(e.at) /\ FloorMinute(e.at) <= u /\ BranchMatches(e.branch, scope))
  <2>1. CountedIn(t, e) =>
          (Key(t, e) \in InRange(tables[t], s, u, scope)
             <=> s <= Key(t, e).at /\ Key(t, e).at <= u /\ BranchMatches(e.branch, scope))
    BY RangeKeys
  <2> DEFINE at == Key(t, e).at
             m == FloorMinute(e.at)
             in == Key(t, e) \in InRange(tables[t], s, u, scope)
  <2>2. at = m /\ (CountedIn(t, e) => (in <=> s <= at /\ at <= u /\ BranchMatches(e.branch, scope)))
    BY <1>1, <2>1
  <2> HIDE DEF at, m, in
  <2>3. CountedIn(t, e) => (in <=> s <= m /\ m <= u /\ BranchMatches(e.branch, scope))
    BY <2>2
  <2> QED BY <2>3 DEF m, in
<1> QED BY <1>1, <1>2 DEF CountedByMinute, Flushed

\* The rows of a set of keys add up, in one figure, to the lines of a set the table counts.
Shown(t, f, keys, seen) ==
  /\ IsFiniteSet(keys)
  /\ \A k \in keys : tables[t][k][f] \in Nat
  /\ Sum(tables[t], keys, f) = Tally({e \in seen : CountedIn(t, e)})[f]

\* A page's rows of a table add up to the lines of its interval and scope.
LEMMA MinuteRange ==
  ASSUME BaseInv, DataInv, NEW t \in Plain, t \notin BlockedTables, NEW s \in Int, NEW u \in Int,
         NEW scope, s >= KeptSince(t), KeptSince(t) \in Int, NEW f \in Figures
  PROVE  Shown(t, f, InRange(tables[t], s, u, scope), CountedByMinute(s, u, scope))
<1> DEFINE keys == InRange(tables[t], s, u, scope)
           mine == {e \in TableEvents(t, Flushed) : Key(t, e) \in keys}
<1>1. mine = {e \in CountedByMinute(s, u, scope) : CountedIn(t, e)}
  <2>1. \A e \in Flushed : CountedIn(t, e) => (Key(t, e) \in keys <=> e \in CountedByMinute(s, u, scope))
    BY InMinutes
  <2> HIDE DEF keys
  <2> QED BY <2>1 DEF TableEvents, CountedByMinute, Flushed
<1>2. \A k \in keys : k \in DOMAIN tables[t] /\ ~(k.at < KeptSince(t))
  BY RangeKeys
<1> HIDE DEF keys
<1>3. keys \in SUBSET DOMAIN tables[t]
  BY <1>2
<1>4. /\ IsFiniteSet(keys) /\ \A k \in keys : tables[t][k][f] \in Nat
      /\ Sum(tables[t], keys, f) = Tally(mine)[f]
  BY <1>2, <1>3, RowsTrue
<1> HIDE DEF mine
<1>5. Shown(t, f, keys, CountedByMinute(s, u, scope))
  BY <1>1, <1>4 DEF Shown
<1> QED BY <1>5 DEF keys

\* Totals of groups are totals of their rows.
LEMMA GroupsAdd ==
  ASSUME NEW rows, NEW keys, IsFiniteSet(keys), NEW f, \A k \in keys : rows[k][f] \in Nat,
         NEW of, NEW groups,
         groups = [g \in {of[k] : k \in keys} |-> Sum(rows, {k \in keys : of[k] = g}, f)]
  PROVE  Total(groups) = Sum(rows, keys, f)
<1>1. DOMAIN groups = {of[k] : k \in keys}
  OBVIOUS
<1>2. \A g \in DOMAIN groups : groups[g] = Sum(rows, With(keys, of, g), f)
  BY DEF With
<1>3. ASSUME NEW gs, DOMAIN gs = {of[k] : k \in keys},
             \A g \in DOMAIN gs : gs[g] = Sum(rows, With(keys, of, g), f)
      PROVE  Total(gs) = Sum(rows, keys, f)
  BY <1>3, GroupTotal
<1> QED BY <1>1, <1>2, <1>3, Zenon

\* Since a time that is kept in all the tables of the traffic.
LEMMA TrafficKept ==
  ASSUME NEW since \in Int, since >= clock - Aggregates, clock \in Nat
  PROVE  \A t \in {"minute", "domain", "category"} :
           /\ t \in Plain /\ t \notin BlockedTables
           /\ KeptSince(t) \in Int /\ since >= KeptSince(t)
<1>1. {"minute", "domain", "category"} \subseteq Plain \ BlockedTables
  BY ColumnsOf DEF Plain, Tabled
<1>2. \A t \in {"minute", "domain", "category"} : KeptSince(t) = clock - Aggregates
  BY DEF KeptSince
<1>3. clock - Aggregates \in Int
  BY RetentionAssumption
<1> QED BY <1>1, <1>2, <1>3

LEMMA CountedFinite ==
  ASSUME DataInv, NEW since, NEW until, NEW scope
  PROVE  /\ IsFiniteSet(Counted(since, until, scope))
         /\ IsFiniteSet(CountedByMinute(since, until, scope))
         /\ IsFiniteSet(Named(CountedByMinute(since, until, scope)))
<1>1. /\ Counted(since, until, scope) \in SUBSET logged
      /\ CountedByMinute(since, until, scope) \in SUBSET logged
  BY DEF Counted, CountedByMinute
<1>2. Named(CountedByMinute(since, until, scope)) \in SUBSET logged
  BY <1>1 DEF Named
<1> QED BY <1>1, <1>2, FlushedFinite DEF DataInv

LEMMA CountedIns ==
  ASSUME NEW events
  PROVE  /\ {e \in events : CountedIn("minute", e)} = events
         /\ {e \in events : CountedIn("http", e)} = events
         /\ {e \in events : CountedIn("code", e)} = events
         /\ {e \in events : CountedIn("domain", e)} = Named(events)
         /\ {e \in events : CountedIn("category", e)} = Named(events)
<1>1. \A e \in events : CountedIn("minute", e) /\ CountedIn("http", e) /\ CountedIn("code", e)
  BY ColumnsOf DEF CountedIn
<1>2. \A e \in events : /\ CountedIn("domain", e) <=> e.domain # None
                        /\ CountedIn("category", e) <=> e.domain # None
  BY ColumnsOf DEF CountedIn
<1> QED BY <1>1, <1>2 DEF Named

\* The summary, the series and the listings of the traffic.
LEMMA TrafficTruth ==
  ASSUME BaseInv, DataInv, NEW since \in Int, NEW until \in Int, NEW scope,
         since >= clock - Aggregates
  PROVE  LET true  == Tally(CountedByMinute(since, until, scope))
             named == Cardinality(Named(CountedByMinute(since, until, scope)))
         IN
         /\ Summary(tables, since, until, scope) = true
         /\ Total(Timeseries(tables, since, until, scope, "requests")) = true.requests
         /\ Total(BranchTotals(tables, since, until, scope, "blocked")) = true.blocked
         /\ Total(Domains(tables, since, until, scope, "requests")) = named
         /\ Total(Categories(tables, since, until, scope, "requests")) = named
         /\ Total(ClientCategories(tables, since, until, scope)) = named
<1> DEFINE seen == CountedByMinute(since, until, scope)
           mins == InRange(tables.minute, since, until, scope)
           doms == InRange(tables.domain, since, until, scope)
           cats == InRange(tables.category, since, until, scope)
<1>1. clock \in Nat
  BY DEF BaseInv
<1>2. \A t \in {"minute", "domain", "category"} :
        /\ t \in Plain /\ t \notin BlockedTables
        /\ KeptSince(t) \in Int /\ since >= KeptSince(t)
  BY <1>1, TrafficKept
<1>3. "requests" \in Figures /\ "blocked" \in Figures
  BY DEF Figures
<1>4. IsFiniteSet(seen) /\ IsFiniteSet(Named(seen))
  BY CountedFinite
<1>5. /\ {e \in seen : CountedIn("minute", e)} = seen
      /\ {e \in seen : CountedIn("domain", e)} = Named(seen)
      /\ {e \in seen : CountedIn("category", e)} = Named(seen)
  BY CountedIns
<1>6. ASSUME NEW f \in Figures
      PROVE  /\ IsFiniteSet(mins) /\ \A k \in mins : tables.minute[k][f] \in Nat
             /\ Sum(tables.minute, mins, f) = Tally(seen)[f]
  <2>1. Shown("minute", f, mins, seen)
    BY <1>2, MinuteRange
  <2> HIDE DEF mins, seen
  <2> QED BY <1>5, <2>1 DEF Shown
<1>n. Tally(Named(seen))["requests"] = Cardinality(Named(seen))
  BY <1>3, <1>4, TallyType
<1>r. ASSUME NEW t \in {"domain", "category"}, NEW f \in Figures
      PROVE  /\ IsFiniteSet(InRange(tables[t], since, until, scope))
             /\ \A k \in InRange(tables[t], since, until, scope) : tables[t][k][f] \in Nat
             /\ Sum(tables[t], InRange(tables[t], since, until, scope), f)
                  = Tally({e \in seen : CountedIn(t, e)})[f]
  <2>1. t \in Plain /\ t \notin BlockedTables /\ KeptSince(t) \in Int /\ since >= KeptSince(t)
    BY <1>2
  <2>2. Shown(t, f, InRange(tables[t], since, until, scope), CountedByMinute(since, until, scope))
    BY <2>1, MinuteRange
  <2> QED BY <2>2 DEF Shown
<1>7. /\ IsFiniteSet(doms) /\ \A k \in doms : tables.domain[k]["requests"] \in Nat
      /\ Sum(tables.domain, doms, "requests") = Cardinality(Named(seen))
  <2> HIDE DEF seen
  <2> QED BY <1>3, <1>5, <1>n, <1>r
<1>8. /\ IsFiniteSet(cats) /\ \A k \in cats : tables.category[k]["requests"] \in Nat
      /\ Sum(tables.category, cats, "requests") = Cardinality(Named(seen))
  <2> HIDE DEF seen
  <2> QED BY <1>3, <1>5, <1>n, <1>r
<1>9. Summary(tables, since, until, scope) = Tally(seen)
  <2>1. Summary(tables, since, until, scope) = [f \in Figures |-> Sum(tables.minute, mins, f)]
    BY DEF Summary
  <2>2. Tally(seen) = [f \in Figures |-> Cardinality({e \in seen : Is(f, e)})]
    BY TallyIs
  <2> HIDE DEF mins, seen, Figures
  <2> QED BY <1>6, <2>1, <2>2
<1> HIDE DEF seen
<1>10. Total(Timeseries(tables, since, until, scope, "requests")) = Tally(seen).requests
  <2> DEFINE of == [k \in mins |-> FloorHour(k.at)]
             groups == Timeseries(tables, since, until, scope, "requests")
  <2>1. groups = [g \in {of[k] : k \in mins} |->
                    Sum(tables.minute, {k \in mins : of[k] = g}, "requests")]
    BY DEF Timeseries, GroupBy
  <2> HIDE DEF of, groups, mins
  <2>2. Total(groups) = Sum(tables.minute, mins, "requests")
    BY <1>3, <1>6, <2>1, GroupsAdd
  <2> QED BY <1>3, <1>6, <2>2 DEF groups
<1>11. Total(BranchTotals(tables, since, until, scope, "blocked")) = Tally(seen).blocked
  <2> DEFINE of == [k \in mins |-> k.branch]
             groups == BranchTotals(tables, since, until, scope, "blocked")
  <2>1. groups = [g \in {of[k] : k \in mins} |->
                    Sum(tables.minute, {k \in mins : of[k] = g}, "blocked")]
    BY DEF BranchTotals, GroupBy
  <2> HIDE DEF of, groups, mins
  <2>2. Total(groups) = Sum(tables.minute, mins, "blocked")
    BY <1>3, <1>6, <2>1, GroupsAdd
  <2> QED BY <1>3, <1>6, <2>2 DEF groups
<1>12. Total(Domains(tables, since, until, scope, "requests")) = Cardinality(Named(seen))
  <2> DEFINE of == [k \in doms |-> k.domain]
             groups == Domains(tables, since, until, scope, "requests")
  <2>1. groups = [g \in {of[k] : k \in doms} |->
                    Sum(tables.domain, {k \in doms : of[k] = g}, "requests")]
    BY DEF Domains, GroupBy
  <2> HIDE DEF of, groups, doms
  <2>2. Total(groups) = Sum(tables.domain, doms, "requests")
    BY <1>7, <2>1, GroupsAdd
  <2> QED BY <1>7, <2>2 DEF groups
<1>13. Total(Categories(tables, since, until, scope, "requests")) = Cardinality(Named(seen))
  <2> DEFINE of == [k \in doms |-> Category[k.domain]]
             groups == Categories(tables, since, until, scope, "requests")
  <2>1. groups = [g \in {of[k] : k \in doms} |->
                    Sum(tables.domain, {k \in doms : of[k] = g}, "requests")]
    BY DEF Categories, GroupBy
  <2> HIDE DEF of, groups, doms
  <2>2. Total(groups) = Sum(tables.domain, doms, "requests")
    BY <1>7, <2>1, GroupsAdd
  <2> QED BY <1>7, <2>2 DEF groups
<1>14. Total(ClientCategories(tables, since, until, scope)) = Cardinality(Named(seen))
  <2> DEFINE of == [k \in cats |-> k.category]
             groups == ClientCategories(tables, since, until, scope)
  <2>1. groups = [g \in {of[k] : k \in cats} |->
                    Sum(tables.category, {k \in cats : of[k] = g}, "requests")]
    BY DEF ClientCategories, GroupBy
  <2> HIDE DEF of, groups, cats
  <2>2. Total(groups) = Sum(tables.category, cats, "requests")
    BY <1>8, <2>1, GroupsAdd
  <2> QED BY <1>8, <2>2 DEF groups
<1> QED BY <1>9, <1>10, <1>11, <1>12, <1>13, <1>14 DEF seen

LEMMA CodesTruth ==
  ASSUME BaseInv, DataInv, NEW since \in Int, NEW until \in Int, NEW scope, since >= clock - Ops
  PROVE  Total(ResultCodes(tables, since, until, scope))
           = Tally(CountedByMinute(since, until, scope)).requests
<1> DEFINE seen == CountedByMinute(since, until, scope)
           keys == InRange(tables.code, since, until, scope)
           of == [k \in keys |-> k.action]
           groups == ResultCodes(tables, since, until, scope)
<1>1. clock - Ops \in Int /\ "requests" \in Figures
  BY RetentionAssumption DEF BaseInv, Figures
<1>2. "code" \in Plain /\ "code" \notin BlockedTables /\ KeptSince("code") = clock - Ops
  BY ColumnsOf DEF Plain, Tabled, KeptSince
<1>3. {e \in seen : CountedIn("code", e)} = seen
  BY CountedIns
<1>4. /\ IsFiniteSet(keys) /\ \A k \in keys : tables.code[k]["requests"] \in Nat
      /\ Sum(tables.code, keys, "requests") = Tally({e \in seen : CountedIn("code", e)})["requests"]
  <2>1. since >= KeptSince("code") /\ KeptSince("code") \in Int
    BY <1>1, <1>2
  <2>2. Shown("code", "requests", keys, seen)
    BY <1>1, <1>2, <2>1, MinuteRange
  <2> HIDE DEF keys, seen
  <2> QED BY <2>2 DEF Shown
<1>5. groups = [g \in {of[k] : k \in keys} |-> Sum(tables.code, {k \in keys : of[k] = g}, "requests")]
  BY DEF ResultCodes, GroupBy
<1> HIDE DEF of, groups, keys, seen
<1>6. Total(groups) = Sum(tables.code, keys, "requests")
  BY <1>4, <1>5, GroupsAdd
<1> QED BY <1>3, <1>4, <1>6 DEF groups, seen

LEMMA Disjoint ==
  ASSUME NEW S, NEW T, IsFiniteSet(S), IsFiniteSet(T), S \cap T = {}
  PROVE  IsFiniteSet(S \cup T) /\ Cardinality(S \cup T) = Cardinality(S) + Cardinality(T)
<1>1. Cardinality({}) = 0
  BY FS_EmptySet
<1>2. Cardinality(S \cap T) = Cardinality({})
  BY Zenon
<1>3. /\ IsFiniteSet(S \cup T)
      /\ Cardinality(S \cup T) = Cardinality(S) + Cardinality(T) - Cardinality(S \cap T)
  BY FS_Union
<1>4. Cardinality(S) \in Nat /\ Cardinality(T) \in Nat
  BY FS_CardinalityType
<1> QED BY <1>1, <1>2, <1>3, <1>4

\* A count by the minute adds up to the count.
LEMMA PerMinute ==
  ASSUME NEW E, IsFiniteSet(E), NEW M, IsFiniteSet(M), \A e \in E : FloorMinute(e.at) \in M,
         NEW h, DOMAIN h = M, \A m \in M : h[m] = Cardinality({e \in E : FloorMinute(e.at) = m})
  PROVE  Total(h) = Cardinality(E)
<1> DEFINE key == [e \in E |-> FloorMinute(e.at)]
<1>1. \A m \in M : With(E, key, m) = {e \in E : FloorMinute(e.at) = m}
  BY DEF With
<1>2. WithAny(E, key, M) = E
  BY DEF WithAny
<1> HIDE DEF key
<1>3. ASSUME NEW m \in M PROVE h[m] = Cardinality(With(E, key, m))
  BY <1>1
<1>4. SumOf(h, M) = Cardinality(WithAny(E, key, M))
  BY <1>3, SumFibres
<1>5. Total(h) = SumOf(h, M)
  BY TotalIs
<1> QED BY <1>2, <1>4, <1>5

\* In each minute the refusals with the proxy's own status, the log-ins and the
\* rest come to the requests that were blocked.
LEMMA DenialsTruth ==
  ASSUME BaseInv, DataInv, NEW since \in Int, NEW until \in Int, NEW scope,
         since >= clock - Ops, since >= clock - Aggregates
  PROVE  LET denials == Denials(tables, since, until, scope) IN
         denials.acl + denials.auth + denials.other = Tally(CountedByMinute(since, until, scope)).blocked
<1> DEFINE seen == CountedByMinute(since, until, scope)
           http == InRange(tables.http, since, until, scope)
           mins == InRange(tables.minute, since, until, scope)
           minutes == {k.at : k \in http \cup mins}
           In(m) == {k \in mins : k.at = m}
           Coded(m, s) == {k \in http : k.at = m /\ k.status = s}
           Status(m, s) == StatusAt(tables, http, m, s)
           Blocks(m) == Sum(tables.minute, In(m), "blocked")
           Other(m) == OtherAt(tables, http, mins, m)
           With403 == {e \in seen : e.status = 403}
           With407 == {e \in seen : e.status = 407}
           rest == {e \in seen : Blocked(e) /\ e.status # 403 /\ e.status # 407}
           denied == {e \in seen : Blocked(e)}
           acl == [m \in minutes |-> Status(m, 403)]
           auth == [m \in minutes |-> Status(m, 407)]
           other == [m \in minutes |-> Other(m)]
<1>1. /\ Denials(tables, since, until, scope).acl = Total(acl)
      /\ Denials(tables, since, until, scope).auth = Total(auth)
      /\ Denials(tables, since, until, scope).other = Total(other)
  BY DEF Denials
<1>2. /\ "http" \in Plain /\ "http" \notin BlockedTables /\ KeptSince("http") = clock - Ops
      /\ "minute" \in Plain /\ "minute" \notin BlockedTables
      /\ KeptSince("minute") = clock - Aggregates
  BY ColumnsOf DEF Plain, Tabled, KeptSince
<1>3. /\ KeptSince("http") \in Int /\ KeptSince("minute") \in Int
      /\ since >= KeptSince("http") /\ since >= KeptSince("minute")
  BY <1>2, RetentionAssumption DEF BaseInv
<1>4. "requests" \in Figures /\ "blocked" \in Figures
  BY DEF Figures
<1>5. ASSUME NEW e \in Flushed
      PROVE  /\ Key("http", e).at = FloorMinute(e.at) /\ Key("http", e).status = e.status
             /\ Key("http", e) \in http <=> e \in seen
             /\ CountedIn("http", e)
             /\ Key("minute", e).at = FloorMinute(e.at)
             /\ Key("minute", e) \in mins <=> e \in seen
             /\ CountedIn("minute", e)
  <2>1. CountedIn("http", e) /\ CountedIn("minute", e)
    BY ColumnsOf DEF CountedIn
  <2>2. Key("http", e).status = e.status
    <3>1. \A c \in Columns["http"] : c # "at" => Key("http", e)[c] = Column(c, e)
      BY KeyFacts
    <3>2. Columns["http"] = {"status"} /\ Column("status", e) = e["status"]
      BY ColumnsOf DEF Column
    <3> QED BY <3>1, <3>2
  <2>3. Key("http", e).at = FloorMinute(e.at) /\ (Key("http", e) \in http <=> e \in seen)
    BY <1>2, <1>3, <2>1, InMinutes
  <2>4. Key("minute", e).at = FloorMinute(e.at) /\ (Key("minute", e) \in mins <=> e \in seen)
    BY <1>2, <1>3, <2>1, InMinutes
  <2> QED BY <2>1, <2>2, <2>3, <2>4
<1>6. /\ \A k \in http : k \in DOMAIN tables["http"] /\ ~(k.at < KeptSince("http"))
      /\ \A k \in mins : k \in DOMAIN tables["minute"] /\ ~(k.at < KeptSince("minute"))
  BY <1>2, <1>3, RangeKeys
<1>7. IsFiniteSet(seen)
  BY CountedFinite
<1>8. seen \subseteq Flushed
  BY DEF CountedByMinute, Flushed
<1> HIDE DEF seen, http, mins
<1>9. ASSUME NEW m, NEW s PROVE Status(m, s) = Cardinality({e \in seen : e.status = s /\ FloorMinute(e.at) = m})
  <2> DEFINE those == {e \in TableEvents("http", Flushed) : Key("http", e) \in Coded(m, s)}
  <2>1. those = {e \in seen : e.status = s /\ FloorMinute(e.at) = m}
    BY <1>5, <1>8 DEF TableEvents
  <2>2. /\ Coded(m, s) \in SUBSET DOMAIN tables["http"]
        /\ \A k \in Coded(m, s) : ~(k.at < KeptSince("http"))
    BY <1>6
  <2> HIDE DEF Coded
  <2>3. Sum(tables["http"], Coded(m, s), "requests") = Tally(those)["requests"]
    BY <1>2, <1>4, <2>2, RowsTrue
  <2>4. IsFiniteSet(those)
    BY <1>7, <2>1, FS_Subset
  <2> HIDE DEF those
  <2>5. Tally(those)["requests"] = Cardinality(those)
    BY <1>4, <2>4, TallyType
  <2> QED BY <2>1, <2>3, <2>5 DEF StatusAt, Coded
<1>10. ASSUME NEW m PROVE Blocks(m) = Cardinality({e \in denied : FloorMinute(e.at) = m})
  <2> DEFINE those == {e \in TableEvents("minute", Flushed) : Key("minute", e) \in In(m)}
  <2>1. those = {e \in seen : FloorMinute(e.at) = m}
    BY <1>5, <1>8 DEF TableEvents
  <2>2. /\ In(m) \in SUBSET DOMAIN tables["minute"]
        /\ \A k \in In(m) : ~(k.at < KeptSince("minute"))
    BY <1>6
  <2> HIDE DEF In
  <2>3. Sum(tables["minute"], In(m), "blocked") = Tally(those)["blocked"]
    BY <1>2, <1>4, <2>2, RowsTrue
  <2>4. Tally(those)["blocked"] = Cardinality({e \in those : Is("blocked", e)})
    BY <1>4, TallyIs
  <2>5. {e \in those : Is("blocked", e)} = {e \in denied : FloorMinute(e.at) = m}
    BY <2>1 DEF Is
  <2> QED BY <2>3, <2>4, <2>5 DEF In
<1>11. IsFiniteSet(With403) /\ IsFiniteSet(With407) /\ IsFiniteSet(rest) /\ IsFiniteSet(denied)
  BY <1>7, FS_Subset
<1>12. /\ denied = (With403 \cup With407) \cup rest /\ With403 \cap With407 = {}
       /\ (With403 \cup With407) \cap rest = {}
  BY DEF Blocked
<1>13. ASSUME NEW m PROVE Other(m) = Cardinality({e \in rest : FloorMinute(e.at) = m})
  <2> DEFINE a == {e \in seen : e.status = 403 /\ FloorMinute(e.at) = m}
             b == {e \in seen : e.status = 407 /\ FloorMinute(e.at) = m}
             c == {e \in rest : FloorMinute(e.at) = m}
             d == {e \in denied : FloorMinute(e.at) = m}
  <2>1. d = (a \cup b) \cup c /\ a \cap b = {} /\ (a \cup b) \cap c = {}
    BY DEF Blocked
  <2>2. IsFiniteSet(a) /\ IsFiniteSet(b) /\ IsFiniteSet(c)
    BY <1>7, FS_Subset
  <2>3. Status(m, 403) = Cardinality(a) /\ Status(m, 407) = Cardinality(b) /\ Blocks(m) = Cardinality(d)
    BY <1>9, <1>10
  <2> HIDE DEF a, b, c, d, Status, Blocks
  <2>4. /\ Cardinality(a) \in Nat /\ Cardinality(b) \in Nat /\ Cardinality(c) \in Nat
        /\ IsFiniteSet(a \cup b)
    BY <2>1, <2>2, FS_CardinalityType, Disjoint
  <2>5. Cardinality(a \cup b) = Cardinality(a) + Cardinality(b)
    BY <2>1, <2>2, Disjoint
  <2>6. Cardinality((a \cup b) \cup c) = Cardinality(a \cup b) + Cardinality(c)
    BY <2>1, <2>2, <2>4, Disjoint
  <2>7. Cardinality(d) = Cardinality((a \cup b) \cup c)
    BY <2>1, Zenon
  <2>8. Blocks(m) - Status(m, 403) - Status(m, 407) = Cardinality(c)
    BY <2>3, <2>4, <2>5, <2>6, <2>7
  <2>9. Other(m) = Cardinality(c)
    BY <2>4, <2>8, OtherIs DEF Status, Blocks
  <2> QED BY <2>9 DEF c
<1>14. IsFiniteSet(minutes) /\ \A e \in seen : FloorMinute(e.at) \in minutes
  <2>1. IsFiniteSet(http) /\ IsFiniteSet(mins)
    BY <1>2, <1>4, <1>6, RowsTrue
  <2> DEFINE both == http \cup mins
             of == [k \in both |-> k.at]
  <2>2. IsFiniteSet(both)
    BY <2>1, FS_Union
  <2>3. minutes = {of[k] : k \in both}
    OBVIOUS
  <2>4. \A e \in seen : FloorMinute(e.at) \in minutes
    BY <1>5, <1>8
  <2> HIDE DEF of, both, minutes
  <2>5. IsFiniteSet(minutes)
    BY <2>2, <2>3, ImageFinite
  <2> QED BY <2>4, <2>5
<1> HIDE DEF Status, Other, minutes
<1>15. Total(acl) = Cardinality(With403)
  <2>1. DOMAIN acl = minutes /\ \A m \in minutes : acl[m] = Status(m, 403)
    OBVIOUS
  <2>2. \A m \in minutes : {e \in seen : e.status = 403 /\ FloorMinute(e.at) = m} = {e \in With403 : FloorMinute(e.at) = m}
    OBVIOUS
  <2>3. \A e \in With403 : FloorMinute(e.at) \in minutes
    BY <1>14
  <2> HIDE DEF acl, With403
  <2>4. ASSUME NEW m \in minutes PROVE acl[m] = Cardinality({e \in With403 : FloorMinute(e.at) = m})
    BY <1>9, <2>1, <2>2
  <2> QED BY <1>11, <1>14, <2>1, <2>3, <2>4, PerMinute
<1>16. Total(auth) = Cardinality(With407)
  <2>1. DOMAIN auth = minutes /\ \A m \in minutes : auth[m] = Status(m, 407)
    OBVIOUS
  <2>2. \A m \in minutes : {e \in seen : e.status = 407 /\ FloorMinute(e.at) = m} = {e \in With407 : FloorMinute(e.at) = m}
    OBVIOUS
  <2>3. \A e \in With407 : FloorMinute(e.at) \in minutes
    BY <1>14
  <2> HIDE DEF auth, With407
  <2>4. ASSUME NEW m \in minutes PROVE auth[m] = Cardinality({e \in With407 : FloorMinute(e.at) = m})
    BY <1>9, <2>1, <2>2
  <2> QED BY <1>11, <1>14, <2>1, <2>3, <2>4, PerMinute
<1>17. Total(other) = Cardinality(rest)
  <2>1. DOMAIN other = minutes /\ \A m \in minutes : other[m] = Other(m)
    OBVIOUS
  <2>3. \A e \in rest : FloorMinute(e.at) \in minutes
    BY <1>14
  <2> HIDE DEF other, rest
  <2>4. ASSUME NEW m \in minutes PROVE other[m] = Cardinality({e \in rest : FloorMinute(e.at) = m})
    BY <1>13, <2>1
  <2> QED BY <1>11, <1>14, <2>1, <2>3, <2>4, PerMinute
<1>18. Tally(seen).blocked = Cardinality(denied)
  <2>1. Tally(seen)["blocked"] = Cardinality({e \in seen : Is("blocked", e)})
    BY <1>4, TallyIs
  <2>2. {e \in seen : Is("blocked", e)} = denied
    BY DEF Is
  <2> QED BY <2>1, <2>2
<1> HIDE DEF acl, auth, other, With403, With407, rest, denied
<1>19. Cardinality(denied) = Cardinality(With403) + Cardinality(With407) + Cardinality(rest)
  <2>1. IsFiniteSet(With403 \cup With407)
    BY <1>11, FS_Union
  <2>2. Cardinality(With403 \cup With407) = Cardinality(With403) + Cardinality(With407)
    BY <1>11, <1>12, Disjoint
  <2>3. Cardinality((With403 \cup With407) \cup rest)
          = Cardinality(With403 \cup With407) + Cardinality(rest)
    BY <1>11, <1>12, <2>1, Disjoint
  <2>4. Cardinality(denied) = Cardinality((With403 \cup With407) \cup rest)
    BY <1>12, Zenon
  <2> QED BY <2>2, <2>3, <2>4
<1> QED BY <1>1, <1>15, <1>16, <1>17, <1>18, <1>19 DEF seen

-----------------------------------------------------------------------------
(* The blocked page.                                                        *)

\* What the page counts: the blocked requests to a domain in the hours of a range.
BlockedIn(since, until, scope) ==
  {e \in Named(Counted(FloorHour(since), until - (until % Hour) + Hour - 1, scope)) : Blocked(e)}

\* A row has something to show, whichever way a request was blocked.
LEMMA BlockedMeasure ==
  ASSUME NEW events, IsFiniteSet(events), NEW e \in events, Blocked(e)
  PROVE  Measure(Tally(events), "all") > 0
<1> DEFINE denied == {x \in events : Is("denied", x)}
           auth == {x \in events : Is("auth", x)}
<1>1. e \in denied \/ e \in auth
  BY DEF Is
<1>2. IsFiniteSet(denied) /\ IsFiniteSet(auth)
  BY FS_Subset
<1>3. Tally(events).denied = Cardinality(denied) /\ Tally(events).auth = Cardinality(auth)
  BY TallyIs DEF Figures
<1>4. Measure(Tally(events), "all") = Tally(events).denied + Tally(events).auth
  BY DEF Measure
<1> HIDE DEF denied, auth
<1>5. /\ Cardinality(denied) \in Nat /\ Cardinality(auth) \in Nat
      /\ Cardinality(denied) = 0 => denied = {}
      /\ Cardinality(auth) = 0 => auth = {}
  BY <1>2, FS_CardinalityType, FS_EmptySet
<1> QED BY <1>1, <1>3, <1>4, <1>5

\* A table of the page holds those requests, each in the row of its hour and domain.
BlockedAgree(t, since, until, scope) ==
  LET keys == InRange(tables[t], FloorHour(since), until, scope)
      mine == BlockedIn(since, until, scope)
  IN
  /\ \A f \in Figures : Sum(tables[t], keys, f) = Tally(mine)[f]
  /\ \A g : Sum(tables[t], {k \in keys : k.at = g}, "denied")
              = Tally({e \in mine : FloorHour(e.at) = g}).denied
  /\ \A k \in keys : /\ Measure(tables[t][k], "all") > 0
                     /\ t = "blockedClient" => k.client \in {e.client : e \in logged}
  /\ {k.domain : k \in keys} = {e.domain : e \in mine}
  /\ {k.at : k \in keys} = {FloorHour(e.at) : e \in mine}

\* Both tables of the page come to the same events, hour by hour and domain by
\* domain, for as long as they are kept.
LEMMA BlockedPage ==
  ASSUME BaseInv, DataInv, NEW t \in BlockedTables, NEW since \in Int, NEW until \in Int, NEW scope,
         FloorHour(since) >= KeptSince(t), KeptSince(t) \in Int
  PROVE  BlockedAgree(t, since, until, scope)
<1> DEFINE keys == InRange(tables[t], FloorHour(since), until, scope)
           mine == BlockedIn(since, until, scope)
<1>1. t \in Plain
  BY ColumnsOf DEF Plain, Tabled
<1>2. ASSUME NEW e \in Flushed
      PROVE  /\ CountedIn(t, e) <=> e.domain # None /\ Blocked(e)
             /\ Key(t, e).at = FloorHour(e.at) /\ Key(t, e).domain = e.domain
             /\ t = "blockedClient" => Key(t, e).client = e.client
  <2>1. CountedIn(t, e) <=> e.domain # None /\ Blocked(e)
    BY ColumnsOf DEF CountedIn
  <2>2. Key(t, e).at = FloorHour(e.at)
    BY KeyFacts
  <2>3. \A c \in Columns[t] : c # "at" => Key(t, e)[c] = Column(c, e)
    BY KeyFacts
  <2>4. "domain" \in Columns[t] /\ (t = "blockedClient" => "client" \in Columns[t])
    BY ColumnsOf
  <2>5. Column("domain", e) = e["domain"] /\ Column("client", e) = e["client"]
    BY DEF Column
  <2>6. Key(t, e).domain = e.domain
    BY <2>3, <2>4, <2>5
  <2>7. t = "blockedClient" => Key(t, e).client = e.client
    BY <2>3, <2>4, <2>5
  <2> QED BY <2>1, <2>2, <2>6, <2>7
<1>3. FloorHour(since) \in Int
  BY FloorFacts
<1>4. ASSUME NEW e \in Flushed, CountedIn(t, e) PROVE Key(t, e) \in keys <=> e \in mine
  <2>1. e.at \in Int /\ e.domain # None /\ Blocked(e) /\ Key(t, e).at = FloorHour(e.at)
    BY <1>2, <1>4 DEF BaseInv, Flushed
  <2>2. Key(t, e) \in keys <=>
          FloorHour(since) <= FloorHour(e.at) /\ FloorHour(e.at) <= until /\ BranchMatches(e.branch, scope)
    BY <1>1, <1>3, <1>4, <2>1, RangeKeys
  <2>3. FloorHour(e.at) >= FloorHour(since) <=> e.at >= FloorHour(since)
    BY <2>1, HourOrder
  <2>4. FloorHour(e.at) <= until <=> e.at <= FloorHour(until) + Hour - 1
    BY <2>1, HourOrder
  <2>5. FloorHour(until) + Hour - 1 = until - (until % Hour) + Hour - 1
    BY DEF FloorHour
  <2>6. FloorHour(e.at) \in Int
    BY <2>1, FloorFacts
  <2>7. e \in mine <=>
          FloorHour(since) <= e.at /\ e.at <= FloorHour(until) + Hour - 1 /\ BranchMatches(e.branch, scope)
    BY <2>1, <2>5 DEF BlockedIn, Named, Counted, Flushed
  <2> HIDE DEF keys, mine
  <2> QED BY <1>3, <2>1, <2>2, <2>3, <2>4, <2>6, <2>7
<1>5. mine \subseteq Flushed /\ \A e \in mine : CountedIn(t, e) /\ Blocked(e)
  BY <1>2 DEF BlockedIn, Named, Counted, Flushed
<1>6. \A k \in keys : k \in DOMAIN tables[t] /\ ~(k.at < KeptSince(t))
  BY <1>1, <1>3, RangeKeys
<1>7. IsFiniteSet(Flushed)
  BY FlushedFinite DEF DataInv, Flushed
<1> HIDE DEF keys, mine
<1>8. "denied" \in Figures
  BY DEF Figures
<1>9. ASSUME NEW some \in SUBSET keys, NEW f \in Figures
      PROVE  /\ Sum(tables[t], some, f) = Tally({e \in mine : Key(t, e) \in some})[f]
             /\ \A k \in some : /\ tables[t][k] = Tally(RowEvents(t, Flushed, k))
                                /\ \E e \in Flushed : CountedIn(t, e) /\ Key(t, e) = k
  <2>1. some \in SUBSET DOMAIN tables[t] /\ \A k \in some : ~(k.at < KeptSince(t))
    BY <1>6
  <2>2. {e \in TableEvents(t, Flushed) : Key(t, e) \in some} = {e \in mine : Key(t, e) \in some}
    BY <1>4, <1>5 DEF TableEvents
  <2>3. /\ Sum(tables[t], some, f)
             = Tally({e \in TableEvents(t, Flushed) : Key(t, e) \in some})[f]
        /\ \A k \in some : /\ tables[t][k] = Tally(RowEvents(t, Flushed, k))
                           /\ \E e \in Flushed : CountedIn(t, e) /\ Key(t, e) = k
    BY <1>1, <2>1, RowsTrue
  <2> QED BY <2>2, <2>3
<1>10. ASSUME NEW f \in Figures PROVE Sum(tables[t], keys, f) = Tally(mine)[f]
  <2>1. {e \in mine : Key(t, e) \in keys} = mine
    BY <1>4, <1>5
  <2> QED BY <1>9, <2>1
<1>11. ASSUME NEW g
       PROVE  Sum(tables[t], {k \in keys : k.at = g}, "denied")
                = Tally({e \in mine : FloorHour(e.at) = g}).denied
  <2> DEFINE some == {k \in keys : k.at = g}
  <2>1. {e \in mine : Key(t, e) \in some} = {e \in mine : FloorHour(e.at) = g}
    BY <1>2, <1>4, <1>5
  <2>2. some \in SUBSET keys
    OBVIOUS
  <2> HIDE DEF some
  <2>3. Sum(tables[t], some, "denied") = Tally({e \in mine : Key(t, e) \in some})["denied"]
    BY <1>8, <1>9, <2>2
  <2> QED BY <2>1, <2>3 DEF some
<1>12. ASSUME NEW k \in keys
       PROVE  \E e \in mine : /\ Key(t, e) = k /\ k.domain = e.domain /\ k.at = FloorHour(e.at)
                              /\ t = "blockedClient" => k.client = e.client
  <2>1. PICK e \in Flushed : CountedIn(t, e) /\ Key(t, e) = k
    BY <1>8, <1>9
  <2>2. e \in mine
    BY <1>4, <2>1
  <2> QED BY <1>2, <2>1, <2>2
<1>13. ASSUME NEW k \in keys
       PROVE  /\ Measure(tables[t][k], "all") > 0
              /\ t = "blockedClient" => k.client \in {e.client : e \in logged}
  <2>1. PICK e \in mine : Key(t, e) = k /\ (t = "blockedClient" => k.client = e.client)
    BY <1>12
  <2>2. e \in RowEvents(t, Flushed, k) /\ Blocked(e) /\ e \in logged
    BY <1>5, <2>1 DEF RowEvents, Flushed
  <2>3. IsFiniteSet(RowEvents(t, Flushed, k))
    BY <1>7, FS_Subset DEF RowEvents
  <2>4. Measure(Tally(RowEvents(t, Flushed, k)), "all") > 0
    BY <2>2, <2>3, BlockedMeasure
  <2>5. tables[t][k] = Tally(RowEvents(t, Flushed, k))
    BY <1>8, <1>9
  <2> QED BY <2>1, <2>2, <2>4, <2>5
<1>14. \A e \in mine : /\ Key(t, e) \in keys /\ Key(t, e).domain = e.domain
                       /\ Key(t, e).at = FloorHour(e.at)
  BY <1>2, <1>4, <1>5
<1>15. {k.domain : k \in keys} = {e.domain : e \in mine}
  BY <1>12, <1>14
<1>16. {k.at : k \in keys} = {FloorHour(e.at) : e \in mine}
  BY <1>12, <1>14
<1> QED BY <1>10, <1>11, <1>13, <1>15, <1>16 DEF keys, mine, BlockedAgree

\* For as long as both are kept, the two tables of the page answer it alike.
LEMMA BlockedTruth ==
  ASSUME BaseInv, DataInv, NEW since \in Int, NEW until \in Int, NEW scope,
         FloorHour(since) >= clock - Ops
  PROVE  LET page == BlockedSummary(tables, since, until, scope, NoFilter, "all")
             hour == Tally(Named(Counted(FloorHour(since), until - (until % Hour) + Hour - 1, scope)))
             byClient == [NoFilter EXCEPT !.clients = {e.client : e \in logged}]
         IN
         /\ page.denied = hour.denied /\ page.auth = hour.auth
         /\ FloorHour(since) >= past.purgedTo =>
              page = BlockedSummary(tables, since, until, scope, byClient, "all")
<1> DEFINE clients == {e.client : e \in logged}
           byClient == [NoFilter EXCEPT !.clients = clients]
           D == InRange(tables["blockedDomain"], FloorHour(since), until, scope)
           B == InRange(tables["blockedClient"], FloorHour(since), until, scope)
           inHours == Named(Counted(FloorHour(since), until - (until % Hour) + Hour - 1, scope))
           mine == BlockedIn(since, until, scope)
           Domained(t, keys) == {k["domain"] : k \in {r \in keys : Measure(tables[t][r], "all") > 0}}
           Seriesed(t, keys) == [g \in {k.at : k \in keys} |->
                                   Sum(tables[t], {k \in keys : k.at = g}, "denied")]
<1>1. /\ "blockedDomain" \in BlockedTables /\ "blockedClient" \in BlockedTables
      /\ KeptSince("blockedDomain") = clock - Ops /\ KeptSince("blockedClient") = past.purgedTo
  BY ColumnsOf DEF KeptSince
<1>2. KeptSince("blockedDomain") \in Int /\ KeptSince("blockedClient") \in Int
  BY <1>1, RetentionAssumption DEF BaseInv, DataInv, TimeInv
<1>3. /\ "denied" \in Figures /\ "auth" \in Figures
  BY DEF Figures
<1>4. /\ \A f \in Figures : Sum(tables["blockedDomain"], D, f) = Tally(mine)[f]
      /\ \A g : Sum(tables["blockedDomain"], {k \in D : k.at = g}, "denied")
                  = Tally({e \in mine : FloorHour(e.at) = g}).denied
      /\ \A k \in D : Measure(tables["blockedDomain"][k], "all") > 0
      /\ {k.domain : k \in D} = {e.domain : e \in mine}
      /\ {k.at : k \in D} = {FloorHour(e.at) : e \in mine}
  <2>1. FloorHour(since) >= KeptSince("blockedDomain")
    BY <1>1
  <2>2. BlockedAgree("blockedDomain", since, until, scope)
    BY <1>1, <1>2, <2>1, BlockedPage
  <2> QED BY <2>2 DEF BlockedAgree
<1>5. ASSUME FloorHour(since) >= past.purgedTo
      PROVE  /\ \A f \in Figures : Sum(tables["blockedClient"], B, f) = Tally(mine)[f]
             /\ \A g : Sum(tables["blockedClient"], {k \in B : k.at = g}, "denied")
                         = Tally({e \in mine : FloorHour(e.at) = g}).denied
             /\ \A k \in B : Measure(tables["blockedClient"][k], "all") > 0 /\ k.client \in clients
             /\ {k.domain : k \in B} = {e.domain : e \in mine}
             /\ {k.at : k \in B} = {FloorHour(e.at) : e \in mine}
  <2>1. FloorHour(since) >= KeptSince("blockedClient")
    BY <1>1, <1>5
  <2>2. BlockedAgree("blockedClient", since, until, scope)
    BY <1>1, <1>2, <2>1, BlockedPage
  <2> QED BY <2>2 DEF BlockedAgree
<1>6. Tally(mine).denied = Tally(inHours).denied /\ Tally(mine).auth = Tally(inHours).auth
  <2>1. /\ {e \in mine : Is("denied", e)} = {e \in inHours : Is("denied", e)}
        /\ {e \in mine : Is("auth", e)} = {e \in inHours : Is("auth", e)}
    BY DEF BlockedIn, Is
  <2> HIDE DEF mine, inHours
  <2>2. \A events : /\ Tally(events)["denied"] = Cardinality({e \in events : Is("denied", e)})
                    /\ Tally(events)["auth"] = Cardinality({e \in events : Is("auth", e)})
    BY <1>3, TallyIs
  <2> QED BY <2>1, <2>2
<1> HIDE DEF mine, inHours
<1>7. /\ BlockedRows(tables, "blockedDomain", since, until, scope, NoFilter) = D
      /\ BlockedRows(tables, "blockedClient", since, until, scope, NoFilter) = B
  BY DEF BlockedRows, Passes, NoFilter
<1>8. PickTable(NoFilter, "none", "none") = "blockedDomain"
  BY DEF PickTable, NeedsClientDetail, NoFilter
<1> HIDE DEF D, B
<1>9. BlockedSummary(tables, since, until, scope, NoFilter, "all")
        = [denied  |-> Sum(tables["blockedDomain"], D, "denied"),
           auth    |-> Sum(tables["blockedDomain"], D, "auth"),
           domains |-> Distinct(tables, "blockedDomain", D, "domain", "all"),
           clients |-> Distinct(tables, "blockedClient", B, "client", "all"),
           users   |-> Distinct(tables, "blockedClient", B, "user", "all"),
           series  |-> Seriesed("blockedDomain", D)]
  BY <1>7, <1>8 DEF BlockedSummary, GroupBy
<1>10. ASSUME FloorHour(since) >= past.purgedTo
       PROVE  BlockedSummary(tables, since, until, scope, NoFilter, "all")
                = BlockedSummary(tables, since, until, scope, byClient, "all")
  <2>1. CASE clients = None
    <3> HIDE DEF clients
    <3>1. byClient = [NoFilter EXCEPT !.clients = None]
      BY <2>1
    <3>2. [NoFilter EXCEPT !.clients = None] = NoFilter
      BY DEF NoFilter
    <3> QED BY <3>1, <3>2
  <2>2. CASE clients # None
    <3>1. PickTable(byClient, "none", "none") = "blockedClient"
      BY <2>2 DEF PickTable, NeedsClientDetail, NoFilter
    <3>2. \A k \in B : k.client \in clients
      BY <1>5, <1>10
    <3>3. BlockedRows(tables, "blockedClient", since, until, scope, byClient) = B
      <4> HIDE DEF clients
      <4> QED BY <3>2 DEF BlockedRows, Passes, NoFilter, B
    <3> HIDE DEF byClient
    <3>4. BlockedSummary(tables, since, until, scope, byClient, "all")
            = [denied  |-> Sum(tables["blockedClient"], B, "denied"),
               auth    |-> Sum(tables["blockedClient"], B, "auth"),
               domains |-> Distinct(tables, "blockedClient", B, "domain", "all"),
               clients |-> Distinct(tables, "blockedClient", B, "client", "all"),
               users   |-> Distinct(tables, "blockedClient", B, "user", "all"),
               series  |-> Seriesed("blockedClient", B)]
      BY <3>1, <3>3 DEF BlockedSummary, GroupBy
    <3>5. /\ Sum(tables["blockedDomain"], D, "denied") = Sum(tables["blockedClient"], B, "denied")
          /\ Sum(tables["blockedDomain"], D, "auth") = Sum(tables["blockedClient"], B, "auth")
      BY <1>3, <1>4, <1>5, <1>10
    <3>6. Distinct(tables, "blockedDomain", D, "domain", "all")
            = Distinct(tables, "blockedClient", B, "domain", "all")
      <4>1. Domained("blockedDomain", D) = {k.domain : k \in D}
        BY <1>4
      <4>2. Domained("blockedClient", B) = {k.domain : k \in B}
        BY <1>5, <1>10
      <4>3. Domained("blockedDomain", D) = Domained("blockedClient", B)
        BY <1>4, <1>5, <1>10, <4>1, <4>2
      <4>4. /\ Distinct(tables, "blockedDomain", D, "domain", "all")
                 = Cardinality(Domained("blockedDomain", D) \ {None})
            /\ Distinct(tables, "blockedClient", B, "domain", "all")
                 = Cardinality(Domained("blockedClient", B) \ {None})
        BY DEF Distinct
      <4> HIDE DEF Domained
      <4> QED BY <4>3, <4>4
    <3>7. Seriesed("blockedDomain", D) = Seriesed("blockedClient", B)
      <4>1. {k.at : k \in D} = {k.at : k \in B}
        BY <1>4, <1>5, <1>10
      <4>2. ASSUME NEW g
            PROVE  Sum(tables["blockedDomain"], {k \in D : k.at = g}, "denied")
                     = Sum(tables["blockedClient"], {k \in B : k.at = g}, "denied")
        BY <1>4, <1>5, <1>10
      <4> QED BY <4>1, <4>2
    <3> HIDE DEF Seriesed
    <3> QED BY <1>9, <3>4, <3>5, <3>6, <3>7
  <2> QED BY <2>1, <2>2
<1>11. LET page == BlockedSummary(tables, since, until, scope, NoFilter, "all") IN
       page.denied = Tally(inHours).denied /\ page.auth = Tally(inHours).auth
  <2> HIDE DEF Seriesed
  <2> QED BY <1>3, <1>4, <1>6, <1>9
<1> QED BY <1>10, <1>11 DEF inHours

-----------------------------------------------------------------------------
(* The questions.                                                           *)

LEMMA AskedTimes ==
  ASSUME BaseInv, NEW ask \in Asked
  PROVE  ask.since \in Int /\ ask.until \in Int
<1>1. clock \in Int
  BY DEF BaseInv
<1>2. ask \in [since : Max({0, clock - Aggregates})..clock, until : {clock},
               scope : {Unrestricted} \cup {{b} : b \in Branches}]
              \cup [since : {1}, until : {clock - 1}, scope : {Unrestricted}]
  BY DEF Asked
<1>3. /\ ask.since \in (Max({0, clock - Aggregates})..clock) \cup {1}
      /\ ask.until \in {clock, clock - 1}
  BY <1>2
<1> QED BY <1>1, <1>3

LEMMA TablesTruth == BaseInv /\ DataInv => TablesAgree
<1> SUFFICES ASSUME BaseInv, DataInv, NEW ask \in Asked
             PROVE  LET since == ask.since
                        until == ask.until
                        scope == ask.scope
                        named == Cardinality(Named(SeenBy(ask)))
                        true  == Tally(SeenBy(ask))
                        hour  == Tally(Named(SeenByHour(ask)))
                    IN
                    /\ since >= clock - Aggregates =>
                         /\ Summary(tables, since, until, scope) = true
                         /\ Total(Timeseries(tables, since, until, scope, "requests")) = true.requests
                         /\ Total(BranchTotals(tables, since, until, scope, "blocked")) = true.blocked
                         /\ Total(Domains(tables, since, until, scope, "requests")) = named
                         /\ Total(Categories(tables, since, until, scope, "requests")) = named
                         /\ Total(ClientCategories(tables, since, until, scope)) = named
                    /\ since >= clock - Ops =>
                         /\ Total(ResultCodes(tables, since, until, scope)) = true.requests
                         /\ since >= clock - Aggregates =>
                              LET denials == Denials(tables, since, until, scope) IN
                              denials.acl + denials.auth + denials.other = true.blocked
                    /\ FloorHour(since) >= clock - Ops =>
                         LET page == BlockedSummary(tables, since, until, scope, NoFilter, "all")
                             byClient == [NoFilter EXCEPT !.clients = {e.client : e \in logged}]
                         IN
                         /\ <<page.denied, page.auth>> = <<hour.denied, hour.auth>>
                         /\ FloorHour(since) >= past.purgedTo =>
                              page = BlockedSummary(tables, since, until, scope, byClient, "all")
  BY DEF TablesAgree
<1>1. PICK since, until, scope : since = ask.since /\ until = ask.until /\ scope = ask.scope
  OBVIOUS
<1>2. since \in Int /\ until \in Int
  BY <1>1, AskedTimes
<1>3. SeenBy(ask) = CountedByMinute(since, until, scope)
  BY <1>1 DEF SeenBy
<1>4. SeenByHour(ask) = Counted(FloorHour(since), until - (until % Hour) + Hour - 1, scope)
  BY <1>1 DEF SeenByHour
<1>5. ASSUME since >= clock - Aggregates
      PROVE  /\ Summary(tables, since, until, scope) = Tally(SeenBy(ask))
             /\ Total(Timeseries(tables, since, until, scope, "requests")) = Tally(SeenBy(ask)).requests
             /\ Total(BranchTotals(tables, since, until, scope, "blocked")) = Tally(SeenBy(ask)).blocked
             /\ Total(Domains(tables, since, until, scope, "requests")) = Cardinality(Named(SeenBy(ask)))
             /\ Total(Categories(tables, since, until, scope, "requests"))
                  = Cardinality(Named(SeenBy(ask)))
             /\ Total(ClientCategories(tables, since, until, scope)) = Cardinality(Named(SeenBy(ask)))
  BY <1>2, <1>3, <1>5, TrafficTruth
<1>6. ASSUME since >= clock - Ops
      PROVE  Total(ResultCodes(tables, since, until, scope)) = Tally(SeenBy(ask)).requests
  BY <1>2, <1>3, <1>6, CodesTruth
<1>7. ASSUME since >= clock - Ops, since >= clock - Aggregates
      PROVE  LET denials == Denials(tables, since, until, scope) IN
             denials.acl + denials.auth + denials.other = Tally(SeenBy(ask)).blocked
  BY <1>2, <1>3, <1>7, DenialsTruth
<1>8. ASSUME FloorHour(since) >= clock - Ops
      PROVE  LET page == BlockedSummary(tables, since, until, scope, NoFilter, "all")
                 hour == Tally(Named(SeenByHour(ask)))
                 byClient == [NoFilter EXCEPT !.clients = {e.client : e \in logged}]
             IN
             /\ page.denied = hour.denied /\ page.auth = hour.auth
             /\ FloorHour(since) >= past.purgedTo =>
                  page = BlockedSummary(tables, since, until, scope, byClient, "all")
  BY <1>2, <1>4, <1>8, BlockedTruth
<1> QED BY <1>1, <1>5, <1>6, <1>7, <1>8
-----------------------------------------------------------------------------
(* The clients.                                                             *)

\* The row that an event of a client is counted in.
ClientRow(kept, e) ==
  IF e \in kept THEN [table |-> "client", row |-> Key("client", e)]
  ELSE [table |-> "hourly", row |-> Hourly(Key("client", e))]

\* Those of the minutes in a range, and of the hours that it overlaps.
ClientEvents(kept, summed, since, until, scope) ==
  {e \in kept \cup summed :
     /\ BranchMatches(e.branch, scope)
     /\ e \in kept => since <= FloorMinute(e.at) /\ FloorMinute(e.at) <= until
     /\ e \notin kept => FloorHour(e.at) <= until /\ FloorHour(e.at) > since - Hour}

LEMMA ClientRowIs ==
  ASSUME NEW kept, NEW e, e.at \in Nat
  PROVE  LET r == ClientRow(kept, e) IN
         /\ r.row.client = e.client /\ r.row.user = e.user /\ r.row.branch = e.branch
         /\ r.row.at = IF e \in kept THEN FloorMinute(e.at) ELSE FloorHour(e.at)
         /\ r.table = IF e \in kept THEN "client" ELSE "hourly"
BY ClientKeys DEF ClientRow

\* Rows of events, each the tally of its own.
AreRowsOf(rows, kept, mine) ==
  /\ IsFiniteSet(mine) /\ IsFiniteSet(DOMAIN rows)
  /\ DOMAIN rows = {ClientRow(kept, e) : e \in mine}
  /\ \A r \in DOMAIN rows : rows[r] = Tally({e \in mine : ClientRow(kept, e) = r})

EventsIn(some, kept, mine) == {e \in mine : ClientRow(kept, e) \in some}

\* The rows of a range are those of its events, and each the tally of its own.
LEMMA ClientRowsAre ==
  ASSUME BaseInv, DataInv, NEW kept \in SUBSET Flushed, NEW summed \in SUBSET Flushed,
         kept \cap summed = {}, tables["client"] = Buckets("client", kept),
         tables["hourly"] = Hours(summed), NEW since \in Int, NEW until \in Int, NEW scope
  PROVE  AreRowsOf(ClientRows(tables, since, until, scope), kept,
                   ClientEvents(kept, summed, since, until, scope))
<1> DEFINE rows == ClientRows(tables, since, until, scope)
           mine == ClientEvents(kept, summed, since, until, scope)
           minutes == InRange(tables["client"], since, until, scope)
           hours == {k \in DOMAIN tables["hourly"] : /\ k.at <= until /\ k.at > since - Hour
                                                     /\ BranchMatches(k.branch, scope)}
           hour == [e \in summed |-> Hourly(Key("client", e))]
<1>1. /\ DOMAIN rows = {[table |-> "client", row |-> k] : k \in minutes}
                         \cup {[table |-> "hourly", row |-> k] : k \in hours}
      /\ \A r \in DOMAIN rows : rows[r] = tables[r.table][r.row]
  BY DEF ClientRows
<1>2. \A e \in kept \cup summed : e.at \in Nat /\ CountedIn("client", e)
  BY ClientKeys DEF BaseInv, Flushed
<1>3. /\ DOMAIN tables["client"] = {Key("client", e) : e \in kept}
      /\ \A k \in DOMAIN tables["client"] :
           tables["client"][k] = Tally({e \in kept : Key("client", e) = k})
  <2>1. TableEvents("client", kept) = kept
    BY <1>2 DEF TableEvents
  <2>2. \A k : RowEvents("client", kept, k) = {e \in kept : Key("client", e) = k}
    BY <1>2 DEF RowEvents
  <2>3. Buckets("client", kept) = [k \in {Key("client", e) : e \in TableEvents("client", kept)} |->
                                     Tally(RowEvents("client", kept, k))]
    BY BucketsAre
  <2> QED BY <2>1, <2>2, <2>3
<1>4. /\ DOMAIN tables["hourly"] = {hour[e] : e \in summed}
      /\ \A k \in DOMAIN tables["hourly"] : tables["hourly"][k] = Tally(With(summed, hour, k))
  BY DEF Hours, Tallies
<1>5. ASSUME NEW e \in kept PROVE Key("client", e) \in minutes <=> e \in mine
  BY <1>2, <1>3, <1>5, ClientKeys DEF InRange, ClientEvents
<1>6. ASSUME NEW e \in summed PROVE hour[e] \in hours <=> e \in mine
  <2>1. e \notin kept
    BY <1>6
  <2>2. hour[e].at = FloorHour(e.at) /\ hour[e].branch = e.branch /\ hour[e] \in DOMAIN tables["hourly"]
    BY <1>2, <1>4, <1>6, ClientKeys
  <2> HIDE DEF hour
  <2> QED BY <2>1, <2>2 DEF ClientEvents
<1>7. mine \subseteq kept \cup summed /\ minutes \subseteq DOMAIN tables["client"]
      /\ hours \subseteq DOMAIN tables["hourly"]
  BY DEF ClientEvents, InRange
<1>8. /\ \A e \in kept : ClientRow(kept, e) = [table |-> "client", row |-> Key("client", e)]
      /\ \A e \in summed : ClientRow(kept, e) = [table |-> "hourly", row |-> hour[e]]
  BY DEF ClientRow
<1> HIDE DEF rows, mine, minutes, hours, hour
<1>9. {[table |-> "client", row |-> k] : k \in minutes} = {ClientRow(kept, e) : e \in kept \cap mine}
  BY <1>3, <1>5, <1>7, <1>8
<1>10. {[table |-> "hourly", row |-> k] : k \in hours} = {ClientRow(kept, e) : e \in summed \cap mine}
  BY <1>4, <1>6, <1>7, <1>8
<1>11. DOMAIN rows = {ClientRow(kept, e) : e \in mine}
  BY <1>1, <1>7, <1>9, <1>10
<1>12. ASSUME NEW r \in DOMAIN rows PROVE rows[r] = Tally({e \in mine : ClientRow(kept, e) = r})
  <2>1. CASE r \in {[table |-> "client", row |-> k] : k \in minutes}
    <3>1. PICK k \in minutes : r = [table |-> "client", row |-> k]
      BY <2>1
    <3>2. {e \in mine : ClientRow(kept, e) = r} = {e \in kept : Key("client", e) = k}
      BY <1>5, <1>7, <1>8, <3>1
    <3>3. rows[r] = tables["client"][k]
      BY <1>1, <3>1
    <3>4. tables["client"][k] = Tally({e \in kept : Key("client", e) = k})
      BY <1>3, <1>7, <3>1
    <3> QED BY <3>2, <3>3, <3>4
  <2>2. CASE r \in {[table |-> "hourly", row |-> k] : k \in hours}
    <3>1. PICK k \in hours : r = [table |-> "hourly", row |-> k]
      BY <2>2
    <3>2. {e \in mine : ClientRow(kept, e) = r} = With(summed, hour, k)
      BY <1>6, <1>7, <1>8, <3>1 DEF With
    <3>3. rows[r] = tables["hourly"][k]
      BY <1>1, <3>1
    <3>4. tables["hourly"][k] = Tally(With(summed, hour, k))
      BY <1>4, <1>7, <3>1
    <3> QED BY <3>2, <3>3, <3>4
  <2> QED BY <1>1, <2>1, <2>2
<1>13. IsFiniteSet(mine)
  BY <1>7, FlushedFinite DEF DataInv, Flushed
<1>14. IsFiniteSet(DOMAIN rows)
  <2> DEFINE key == [e \in mine |-> ClientRow(kept, e)]
  <2>1. DOMAIN rows = {key[e] : e \in mine}
    BY <1>11
  <2> HIDE DEF key
  <2> QED BY <1>13, <2>1, ImageFinite
<1>15. AreRowsOf(rows, kept, mine)
  BY <1>11, <1>12, <1>13, <1>14 DEF AreRowsOf
<1> QED BY <1>15 DEF rows, mine

\* Sums over some of the rows count their events.
LEMMA ClientsSum ==
  ASSUME NEW kept, NEW mine, NEW rows, AreRowsOf(rows, kept, mine),
         NEW some \in SUBSET DOMAIN rows
  PROVE  /\ \A r \in some : rows[r]["requests"] \in Nat
         /\ Sum(rows, some, "requests") = Cardinality(EventsIn(some, kept, mine))
<1> DEFINE key == [e \in mine |-> ClientRow(kept, e)]
<1>1. "requests" \in Figures
  BY DEF Figures
<1>2. IsFiniteSet(some) /\ IsFiniteSet(mine)
  BY FS_Subset DEF AreRowsOf
<1>3. \A r : With(mine, key, r) = {e \in mine : ClientRow(kept, e) = r}
  BY DEF With
<1>4. \A r \in some : rows[r] = Tally(With(mine, key, r))
  BY <1>3 DEF AreRowsOf
<1>5. WithAny(mine, key, some) = EventsIn(some, kept, mine)
  BY DEF WithAny, EventsIn
<1> HIDE DEF key
<1>6. Sum(rows, some, "requests") = Tally(WithAny(mine, key, some))["requests"]
  BY <1>1, <1>2, <1>4, RowsSum
<1>7. ASSUME NEW r \in some PROVE rows[r]["requests"] \in Nat
  <2>1. IsFiniteSet(With(mine, key, r))
    BY <1>2, FS_Subset DEF With
  <2> QED BY <1>1, <1>4, <2>1, TallyType
<1>8. Tally(WithAny(mine, key, some))["requests"] = Cardinality(WithAny(mine, key, some))
  <2>1. IsFiniteSet(WithAny(mine, key, some))
    BY <1>2, FS_Subset DEF WithAny
  <2> QED BY <1>1, <2>1, TallyType
<1> QED BY <1>5, <1>6, <1>7, <1>8

\* Where the clients' events are: in the range and, of the hours around it, no
\* further; all that are in the range, but for those that no row counts.
LEMMA ClientBounds ==
  ASSUME BaseInv, NEW kept \in SUBSET Flushed, NEW summed \in SUBSET Flushed,
         \A e \in Flushed \ (kept \cup summed) :
           e \in past.uncounted \/ FloorHour(e.at) < clock - Aggregates,
         NEW since \in Int, NEW until \in Int, NEW scope, FloorHour(since) >= clock - Aggregates
  PROVE  LET mine == ClientEvents(kept, summed, since, until, scope) IN
         /\ CountedByMinute(since, until, scope) \ past.uncounted \subseteq mine
         /\ mine \subseteq Counted(since - Hour + 1, until + Hour - 1, scope)
<1> DEFINE mine == ClientEvents(kept, summed, since, until, scope)
<1>1. Hour \in Nat \ {0}
  BY TablesAssumption
<1>2. clock - Aggregates \in Int /\ FloorHour(since) \in Int
  <2>1. clock \in Int /\ Aggregates \in Int
    BY RetentionAssumption DEF BaseInv
  <2>2. FloorHour(since) \in Int
    BY FloorFacts
  <2> QED BY <2>1, <2>2
<1>3. ASSUME NEW e \in Flushed
      PROVE  /\ e.at \in Int /\ FloorHour(e.at) \in Int /\ FloorMinute(e.at) \in Int
             /\ FloorHour(e.at) <= FloorMinute(e.at) /\ e.at - Hour < FloorHour(e.at)
             /\ FloorMinute(e.at) <= e.at /\ e.at < FloorMinute(e.at) + Hour
             /\ FloorHour(e.at) >= FloorHour(since) <=> e.at >= FloorHour(since)
             /\ FloorHour(since) <= since
  <2>1. e.at \in Int
    BY DEF BaseInv, Flushed
  <2>2. FloorHour(e.at) >= FloorHour(since) <=> e.at >= FloorHour(since)
    BY <2>1, HourOrder
  <2> QED BY <2>1, <2>2, FloorFacts, MinuteInHour
<1>4. ASSUME NEW e \in CountedByMinute(since, until, scope) \ past.uncounted PROVE e \in mine
  <2>1. /\ e \in Flushed /\ BranchMatches(e.branch, scope)
        /\ since <= FloorMinute(e.at) /\ FloorMinute(e.at) <= until
    BY <1>4 DEF CountedByMinute, Flushed
  <2>2. e \in kept \cup summed
    BY <1>2, <1>3, <1>4, <2>1
  <2>3. FloorHour(e.at) <= until /\ FloorHour(e.at) > since - Hour
    BY <1>1, <1>3, <2>1
  <2> QED BY <2>1, <2>2, <2>3 DEF ClientEvents
<1>5. ASSUME NEW e \in mine PROVE e \in Counted(since - Hour + 1, until + Hour - 1, scope)
  <2>1. /\ e \in Flushed /\ BranchMatches(e.branch, scope)
        /\ e \in kept => since <= FloorMinute(e.at) /\ FloorMinute(e.at) <= until
        /\ e \notin kept => FloorHour(e.at) <= until /\ FloorHour(e.at) > since - Hour
    BY <1>5 DEF ClientEvents
  <2>2. since - Hour + 1 <= e.at /\ e.at <= until + Hour - 1
    BY <1>1, <1>3, <2>1
  <2> QED BY <2>1, <2>2 DEF Counted, Flushed
<1> QED BY <1>4, <1>5

\* The list of clients and the leaderboard both add up to the rows.
LEMMA ClientTotals ==
  ASSUME NEW since, NEW until, NEW scope, NEW kept, NEW mine,
         AreRowsOf(ClientRows(tables, since, until, scope), kept, mine)
  PROVE  /\ Total(Clients(tables, since, until, scope, "requests")) = Cardinality(mine)
         /\ LET board == Leaderboard(tables, since, until, scope) IN
            Total(board.actors) + board.unattributed = Cardinality(mine)
<1> DEFINE rows == ClientRows(tables, since, until, scope)
           listed == {r \in DOMAIN rows : Kept(rows, r)}
           rest == {r \in DOMAIN rows : r.row.user = None /\ r.row.client \in LoggedIn(rows)}
           client == [r \in DOMAIN rows |-> <<r.row.client, r.row.user, r.row.branch>>]
           actor == [r \in listed |-> Actor(r)]
           Of(some) == EventsIn(some, kept, mine)
           clients == Clients(tables, since, until, scope, "requests")
           actors == Leaderboard(tables, since, until, scope).actors
<1>1. clients = [g \in {client[r] : r \in DOMAIN rows} |->
                   Sum(rows, {r \in DOMAIN rows : client[r] = g}, "requests")]
  BY DEF Clients, GroupBy
<1>2. actors = [g \in {actor[r] : r \in listed} |->
                  Sum(rows, {r \in listed : actor[r] = g}, "requests")]
  BY DEF Leaderboard, GroupBy
<1>3. Leaderboard(tables, since, until, scope).unattributed = Sum(rows, rest, "requests")
  BY DEF Leaderboard
<1>4. listed \subseteq DOMAIN rows /\ rest \subseteq DOMAIN rows
      /\ listed \cup rest = DOMAIN rows /\ listed \cap rest = {}
  BY DEF Kept
<1>5. AreRowsOf(rows, kept, mine)
  OBVIOUS
<1> HIDE DEF rows, listed, rest, client, actor, clients, actors
<1>6. ASSUME NEW some \in SUBSET DOMAIN rows
      PROVE  /\ \A r \in some : rows[r]["requests"] \in Nat
             /\ Sum(rows, some, "requests") = Cardinality(Of(some))
  BY <1>5, ClientsSum
<1>7. IsFiniteSet(listed) /\ IsFiniteSet(DOMAIN rows) /\ IsFiniteSet(mine)
  BY <1>4, <1>5, FS_Subset DEF AreRowsOf
<1>8. Total(clients) = Sum(rows, DOMAIN rows, "requests")
  <2>1. \A r \in DOMAIN rows : rows[r]["requests"] \in Nat
    BY <1>6
  <2> QED BY <1>1, <1>7, <2>1, GroupsAdd
<1>9. Total(actors) = Sum(rows, listed, "requests")
  <2>1. \A r \in listed : rows[r]["requests"] \in Nat
    BY <1>4, <1>6
  <2> QED BY <1>2, <1>7, <2>1, GroupsAdd
<1>10. Of(DOMAIN rows) = mine
  BY <1>5 DEF EventsIn, AreRowsOf
<1>11. IsFiniteSet(Of(listed)) /\ IsFiniteSet(Of(rest)) /\ Of(listed) \cap Of(rest) = {}
       /\ Of(listed) \cup Of(rest) = mine
  <2>1. Of(listed) \subseteq mine /\ Of(rest) \subseteq mine
    BY DEF EventsIn
  <2>2. Of(listed) \cap Of(rest) = {} /\ Of(listed) \cup Of(rest) = mine
    BY <1>4, <1>10 DEF EventsIn
  <2> QED BY <1>7, <2>1, <2>2, FS_Subset
<1> HIDE DEF Of
<1>12. Cardinality(Of(listed)) + Cardinality(Of(rest)) = Cardinality(mine)
  <2>1. Cardinality(Of(listed) \cup Of(rest)) = Cardinality(Of(listed)) + Cardinality(Of(rest))
    BY <1>11, Disjoint
  <2> QED BY <1>11, <2>1
<1>13. /\ Sum(rows, DOMAIN rows, "requests") = Cardinality(mine)
       /\ Sum(rows, listed, "requests") = Cardinality(Of(listed))
       /\ Sum(rows, rest, "requests") = Cardinality(Of(rest))
  BY <1>4, <1>6, <1>10
<1>14. Total(clients) = Cardinality(mine)
  BY <1>8, <1>13
<1>15. Total(actors) + Leaderboard(tables, since, until, scope).unattributed = Cardinality(mine)
  BY <1>3, <1>9, <1>12, <1>13
<1> QED BY <1>14, <1>15 DEF clients, actors

\* With every event in a row, rows since a whole hour are of events since then.
LEMMA FirstRows ==
  ASSUME BaseInv, DataInv, NEW kept \in SUBSET Flushed, NEW summed \in SUBSET Flushed,
         kept \cup summed = Flushed, kept \cap summed = {}, tables["client"] = Buckets("client", kept),
         tables["hourly"] = Hours(summed), NEW since \in Int, NEW scope, since % Hour = 0
  PROVE  LET rows == ClientRows(tables, 0, clock, scope)
             all == Counted(0, clock, scope)
         IN
         /\ \A r \in DOMAIN rows : /\ r.row.at \in 0..clock
                                   /\ \E e \in all : /\ r.row.client = e.client /\ r.row.user = e.user
                                                     /\ r.row.at >= since <=> e.at >= since
         /\ \A e \in all : \E r \in DOMAIN rows :
              /\ r.row.client = e.client /\ r.row.user = e.user
              /\ r.row.at >= since <=> e.at >= since
<1> DEFINE rows == ClientRows(tables, 0, clock, scope)
           all == Counted(0, clock, scope)
           mine == ClientEvents(kept, summed, 0, clock, scope)
<1>1. clock \in Nat /\ Hour \in Nat \ {0}
  BY TablesAssumption DEF BaseInv
<1>2. DOMAIN rows = {ClientRow(kept, e) : e \in mine}
  <2>1. AreRowsOf(rows, kept, mine)
    BY <1>1, ClientRowsAre
  <2> QED BY <2>1 DEF AreRowsOf
<1>3. ASSUME NEW e \in Flushed
      PROVE  /\ e.at \in 0..clock /\ FloorHour(e.at) \in 0..clock /\ FloorMinute(e.at) \in 0..clock
             /\ FloorHour(e.at) >= since <=> e.at >= since
             /\ FloorMinute(e.at) >= since <=> e.at >= since
  <2>1. e.at \in Nat /\ e.at <= clock
    BY DEF BaseInv, DataInv, StoredInv, Flushed
  <2>2. /\ FloorHour(e.at) \in Nat /\ FloorMinute(e.at) \in Nat
        /\ FloorHour(e.at) <= FloorMinute(e.at) /\ FloorMinute(e.at) <= e.at
    <3>1. e.at \in Int
      BY <2>1
    <3> QED BY <2>1, <3>1, FloorFacts, MinuteInHour
  <2>3. FloorHour(e.at) >= FloorHour(since) <=> e.at >= FloorHour(since)
    BY <2>1, HourOrder
  <2>4. FloorHour(since) = since
    BY HourOrder
  <2> QED BY <1>1, <2>1, <2>2, <2>3, <2>4
<1>4. all = {e \in Flushed : BranchMatches(e.branch, scope)}
  BY <1>3 DEF Counted, Flushed
<1>5. mine = {e \in Flushed : BranchMatches(e.branch, scope)}
  <2>1. ASSUME NEW e \in Flushed
        PROVE  /\ 0 <= FloorMinute(e.at) /\ FloorMinute(e.at) <= clock
               /\ FloorHour(e.at) <= clock /\ FloorHour(e.at) > 0 - Hour
    BY <1>1, <1>3
  <2> QED BY <2>1 DEF ClientEvents
<1>6. ASSUME NEW e \in all
      PROVE  LET r == ClientRow(kept, e) IN
             /\ r.row.client = e.client /\ r.row.user = e.user
             /\ r.row.at >= since <=> e.at >= since
             /\ r.row.at \in 0..clock
  <2>1. e \in Flushed /\ e.at \in Nat
    BY <1>4 DEF BaseInv, Flushed
  <2> QED BY <1>3, <2>1, ClientRowIs
<1>7. mine = all
  BY <1>4, <1>5
<1> HIDE DEF rows, mine, all
<1>8. ASSUME NEW r \in DOMAIN rows
      PROVE  /\ r.row.at \in 0..clock
             /\ \E e \in all : /\ r.row.client = e.client /\ r.row.user = e.user
                               /\ r.row.at >= since <=> e.at >= since
  <2>1. PICK e \in all : r = ClientRow(kept, e)
    BY <1>2, <1>7
  <2> QED BY <1>6, <2>1
<1>9. ASSUME NEW e \in all
      PROVE  \E r \in DOMAIN rows : /\ r.row.client = e.client /\ r.row.user = e.user
                                    /\ r.row.at >= since <=> e.at >= since
  <2>1. ClientRow(kept, e) \in DOMAIN rows
    BY <1>2, <1>7
  <2> QED BY <1>6, <2>1
<1> QED BY <1>8, <1>9 DEF rows, all

\* A client is new in whole hours just when it has no request before.
LEMMA NewOnes ==
  ASSUME BaseInv, DataInv, NEW since \in Int, NEW scope,
         LET rows == ClientRows(tables, 0, clock, scope)
             all == Counted(0, clock, scope)
         IN
         /\ \A r \in DOMAIN rows : /\ r.row.at \in 0..clock
                                   /\ \E e \in all : /\ r.row.client = e.client /\ r.row.user = e.user
                                                     /\ r.row.at >= since <=> e.at >= since
         /\ \A e \in all : \E r \in DOMAIN rows :
              /\ r.row.client = e.client /\ r.row.user = e.user
              /\ r.row.at >= since <=> e.at >= since
  PROVE  LET New(c) == {e[c] : e \in Counted(0, clock, scope)}
                         \ ({e[c] : e \in Counted(0, since - 1, scope)} \cup {None})
         IN
         /\ NewClients(tables, since, clock, scope) = New("client")
         /\ NewUsers(tables, since, clock, scope) = New("user")
<1> DEFINE rows == ClientRows(tables, 0, clock, scope)
           all == Counted(0, clock, scope)
           before == Counted(0, since - 1, scope)
           UserAt(u) == {r.row.at : r \in {q \in DOMAIN rows : q.row.user = u}}
           clients == {r.row.client : r \in DOMAIN rows}
           users == {r.row.user : r \in DOMAIN rows}
<1>1. clock \in Nat
  BY DEF BaseInv
<1>2. \A e \in all : e.at \in 0..clock /\ e.client # None
  BY <1>1 DEF BaseInv, DataInv, StoredInv, Counted
<1>3. before = {e \in all : ~(e.at >= since)}
  <2>1. ASSUME NEW e \in logged PROVE e.at \in 0..clock
    BY <1>1 DEF BaseInv, DataInv, StoredInv
  <2> QED BY <1>1, <2>1 DEF Counted
<1>4. /\ NewClients(tables, since, clock, scope) =
           {c \in clients : \A r \in DOMAIN rows : r.row.client = c => r.row.at >= since}
      /\ NewUsers(tables, since, clock, scope) = {u \in users \ {None} : Min(UserAt(u)) >= since}
  <2>1. NewClients(tables, since, clock, scope) =
          {c \in clients : \A r \in DOMAIN rows : r.row.client = c => r.row.at >= since}
    BY <1>1, NewClientsAre
  <2>2. NewUsers(tables, since, clock, scope) = {u \in users \ {None} : Min(UserAt(u)) >= since}
    BY DEF NewUsers
  <2> QED BY <2>1, <2>2
<1> HIDE DEF rows, all, before
<1>5. /\ \A r \in DOMAIN rows : /\ r.row.at \in 0..clock
                                /\ \E e \in all : /\ r.row.client = e.client /\ r.row.user = e.user
                                                  /\ r.row.at >= since <=> e.at >= since
      /\ \A e \in all : \E r \in DOMAIN rows :
           /\ r.row.client = e.client /\ r.row.user = e.user
           /\ r.row.at >= since <=> e.at >= since
  BY DEF rows, all
<1>6. clients = {e.client : e \in all} /\ users = {e.user : e \in all}
  BY <1>5
<1>7. ASSUME NEW c
      PROVE  (\A r \in DOMAIN rows : r.row.client = c => r.row.at >= since)
               <=> c \notin {e.client : e \in before}
  BY <1>3, <1>5
<1>8. ASSUME NEW u \in users PROVE Min(UserAt(u)) >= since <=> u \notin {e.user : e \in before}
  <2>1. UserAt(u) \in SUBSET (0..clock)
    BY <1>5
  <2>3. UserAt(u) # {}
    <3>1. PICK r \in DOMAIN rows : r.row.user = u
      OBVIOUS
    <3>2. r.row.at \in UserAt(u)
      BY <3>1
    <3> QED BY <3>2
  <2>2. (\A x \in UserAt(u) : x >= since) <=> u \notin {e.user : e \in before}
    BY <1>3, <1>5
  <2> HIDE DEF UserAt
  <2> QED BY <1>1, <2>1, <2>2, <2>3, LeastSince
<1>9. None \notin clients
  BY <1>2, <1>6
<1> HIDE DEF clients, users, UserAt
<1>10. NewClients(tables, since, clock, scope)
         = {e.client : e \in all} \ ({e.client : e \in before} \cup {None})
  <2>1. {c \in clients : \A r \in DOMAIN rows : r.row.client = c => r.row.at >= since}
          = {c \in clients : c \notin {e.client : e \in before}}
    <3> DEFINE IsNew(c) == \A r \in DOMAIN rows : r.row.client = c => r.row.at >= since
               WasNot(c) == c \notin {e.client : e \in before}
    <3>1. \A c : IsNew(c) <=> WasNot(c)
      BY <1>7
    <3> HIDE DEF IsNew, WasNot
    <3>2. {c \in clients : IsNew(c)} = {c \in clients : WasNot(c)}
      BY <3>1
    <3> QED BY <3>2 DEF IsNew, WasNot
  <2>2. NewClients(tables, since, clock, scope) = {c \in clients : c \notin {e.client : e \in before}}
    BY <1>4, <2>1
  <2> QED BY <1>6, <1>9, <2>2
<1>11. NewUsers(tables, since, clock, scope)
         = {e.user : e \in all} \ ({e.user : e \in before} \cup {None})
  BY <1>4, <1>6, <1>8
<1>12. /\ NewClients(tables, since, clock, scope)
            = {e["client"] : e \in all} \ ({e["client"] : e \in before} \cup {None})
       /\ NewUsers(tables, since, clock, scope)
            = {e["user"] : e \in all} \ ({e["user"] : e \in before} \cup {None})
  BY <1>10, <1>11
<1> QED BY <1>12 DEF all, before

\* What the clients of a range come to.
LEMMA ClientsTruth == BaseInv /\ DataInv => RolledUpOnce
<1> SUFFICES ASSUME BaseInv, DataInv, NEW ask \in Asked, FloorHour(ask.since) >= clock - Aggregates
             PROVE  LET since == ask.since
                        until == ask.until
                        scope == ask.scope
                        sum   == Total(Clients(tables, since, until, scope, "requests"))
                        board == Leaderboard(tables, since, until, scope)
                        New(c) == {e[c] : e \in Counted(0, until, scope)}
                                    \ ({e[c] : e \in Counted(0, since - 1, scope)} \cup {None})
                    IN
                    /\ sum >= Cardinality(CountedByMinute(since, until, scope) \ past.uncounted)
                    /\ sum <= Cardinality(Counted(since - Hour + 1, until + Hour - 1, scope))
                    /\ Total(board.actors) + board.unattributed = sum
                    /\ since % Hour = 0 /\ until = clock /\ past.uncounted = {} /\ clock <= Aggregates =>
                         /\ NewClients(tables, since, until, scope) = New("client")
                         /\ NewUsers(tables, since, until, scope) = New("user")
  BY DEF RolledUpOnce
<1>1. PICK since, until, scope : since = ask.since /\ until = ask.until /\ scope = ask.scope
  OBVIOUS
<1>2. since \in Int /\ until \in Int /\ FloorHour(since) >= clock - Aggregates
  BY <1>1, AskedTimes
<1>3. PICK kept, summed, seen \in SUBSET Flushed : RolledUpTo(kept, summed, seen)
  BY DEF DataInv, ClientsInv
<1>4. /\ kept \cap summed = {}
      /\ tables["client"] = Buckets("client", kept) /\ tables["hourly"] = Hours(summed)
      /\ \A e \in Flushed \ (kept \cup summed) :
           e \in past.uncounted \/ FloorHour(e.at) < clock - Aggregates
  BY <1>3 DEF RolledUpTo
<1>5. PICK mine : mine = ClientEvents(kept, summed, since, until, scope)
  OBVIOUS
<1>6. AreRowsOf(ClientRows(tables, since, until, scope), kept, mine)
  BY <1>2, <1>4, <1>5, ClientRowsAre
<1>7. /\ Total(Clients(tables, since, until, scope, "requests")) = Cardinality(mine)
      /\ LET board == Leaderboard(tables, since, until, scope) IN
         Total(board.actors) + board.unattributed = Cardinality(mine)
  BY <1>6, ClientTotals
<1>8. PICK least, most : /\ least = CountedByMinute(since, until, scope) \ past.uncounted
                         /\ most = Counted(since - Hour + 1, until + Hour - 1, scope)
  OBVIOUS
<1>9. least \subseteq mine /\ mine \subseteq most
  BY <1>2, <1>4, <1>5, <1>8, ClientBounds
<1>10. IsFiniteSet(most)
  BY <1>8, CountedFinite
<1>11. /\ Cardinality(least) <= Cardinality(mine) /\ Cardinality(mine) <= Cardinality(most)
       /\ Cardinality(least) \in Nat /\ Cardinality(mine) \in Nat
  <2>1. IsFiniteSet(mine) /\ Cardinality(mine) <= Cardinality(most)
    BY <1>9, <1>10, FS_Subset
  <2>2. IsFiniteSet(least) /\ Cardinality(least) <= Cardinality(mine)
    BY <1>9, <2>1, FS_Subset
  <2> QED BY <2>1, <2>2, FS_CardinalityType
<1>12. ASSUME since % Hour = 0, until = clock, past.uncounted = {}, clock <= Aggregates
       PROVE  LET New(c) == {e[c] : e \in Counted(0, until, scope)}
                              \ ({e[c] : e \in Counted(0, since - 1, scope)} \cup {None})
              IN
              /\ NewClients(tables, since, until, scope) = New("client")
              /\ NewUsers(tables, since, until, scope) = New("user")
  <2>1. kept \cup summed = Flushed
    <3>1. ASSUME NEW e \in Flushed PROVE e \in kept \cup summed
      <4>1. FloorHour(e.at) \in Nat
        <5>1. e.at \in Nat
          BY DEF BaseInv, Flushed
        <5> QED BY <5>1, FloorFacts
      <4>2. clock - Aggregates <= 0 /\ clock - Aggregates \in Int
        BY <1>12, RetentionAssumption DEF BaseInv
      <4> QED BY <1>4, <1>12, <4>1, <4>2
    <3> QED BY <3>1
  <2>2. LET rows == ClientRows(tables, 0, clock, scope)
            all == Counted(0, clock, scope)
        IN
        /\ \A r \in DOMAIN rows : /\ r.row.at \in 0..clock
                                  /\ \E e \in all : /\ r.row.client = e.client /\ r.row.user = e.user
                                                    /\ r.row.at >= since <=> e.at >= since
        /\ \A e \in all : \E r \in DOMAIN rows :
             /\ r.row.client = e.client /\ r.row.user = e.user
             /\ r.row.at >= since <=> e.at >= since
    BY <1>2, <1>4, <1>12, <2>1, FirstRows
  <2> QED BY <1>2, <1>12, <2>2, NewOnes
<1> QED BY <1>1, <1>7, <1>8, <1>11, <1>12

-----------------------------------------------------------------------------
(* The pages: what rows show of events, whichever table they are in.        *)

\* The rows are the tallies of the events, each under its key.
Shows(rows, keys, events, key) ==
  /\ IsFiniteSet(events) /\ IsFiniteSet(keys)
  /\ keys = {key[e] : e \in events}
  /\ \A k \in keys : rows[k] = Tally(With(events, key, k))

\* The rows grouped by what `of` makes of a key, and what such groups count.
Grouped(groups, rows, keys, of, f) ==
  /\ DOMAIN groups = {of[k] : k \in keys}
  /\ \A g \in DOMAIN groups : groups[g] = Sum(rows, With(keys, of, g), f)

Counts(groups, events, of, key, f) ==
  /\ DOMAIN groups = {of[key[e]] : e \in events} /\ IsFiniteSet(DOMAIN groups)
  /\ \A g \in DOMAIN groups : /\ groups[g] = Tally({e \in events : of[key[e]] = g})[f]
                               /\ groups[g] \in Nat
  /\ Total(groups) = Tally(events)[f]

\* Some of the rows show some of the events.
LEMMA ShowsSome ==
  ASSUME NEW rows, NEW keys, NEW events, NEW key, Shows(rows, keys, events, key),
         NEW some \in SUBSET keys
  PROVE  Shows(rows, some, WithAny(events, key, some), key)
<1> DEFINE mine == WithAny(events, key, some)
<1>1. IsFiniteSet(mine) /\ IsFiniteSet(some)
  BY FS_Subset DEF Shows, WithAny
<1>2. some = {key[e] : e \in mine}
  BY DEF Shows, WithAny
<1>3. ASSUME NEW k \in some PROVE rows[k] = Tally(With(mine, key, k))
  <2>1. With(mine, key, k) = With(events, key, k)
    BY DEF With, WithAny
  <2> QED BY <2>1 DEF Shows
<1> QED BY <1>1, <1>2, <1>3 DEF Shows

\* Their sum is the tally of the events.
LEMMA ShowsSum ==
  ASSUME NEW rows, NEW keys, NEW events, NEW key, Shows(rows, keys, events, key),
         NEW f \in Figures
  PROVE  /\ IsFiniteSet(keys) /\ IsFiniteSet(events)
         /\ \A k \in keys : rows[k][f] \in Nat
         /\ Sum(rows, keys, f) = Tally(events)[f]
<1>1. IsFiniteSet(events) /\ IsFiniteSet(keys)
  BY DEF Shows
<1>2. ASSUME NEW k \in keys PROVE rows[k][f] \in Nat
  <2>1. IsFiniteSet(With(events, key, k))
    BY <1>1, FS_Subset DEF With
  <2>2. rows[k] = Tally(With(events, key, k))
    BY DEF Shows
  <2> QED BY <2>1, <2>2, TallyType
<1>3. Sum(rows, keys, f) = Tally(WithAny(events, key, keys))[f]
  <2>1. \A k \in keys : rows[k] = Tally(With(events, key, k))
    BY DEF Shows
  <2> QED BY <1>1, <2>1, RowsSum
<1>4. WithAny(events, key, keys) = events
  BY DEF Shows, WithAny
<1> QED BY <1>1, <1>2, <1>3, <1>4

\* Grouped by what `of` makes of a key, they are the tallies of the groups' events.
LEMMA ShowsGroups ==
  ASSUME NEW rows, NEW keys, NEW events, NEW key, Shows(rows, keys, events, key),
         NEW f \in Figures, NEW of, NEW groups, Grouped(groups, rows, keys, of, f)
  PROVE  Counts(groups, events, of, key, f)
<1>1. keys = {key[e] : e \in events}
  BY DEF Shows
<1>2. /\ DOMAIN groups = {of[k] : k \in keys}
      /\ \A g \in DOMAIN groups : groups[g] = Sum(rows, With(keys, of, g), f)
  BY DEF Grouped
<1>3. DOMAIN groups = {of[key[e]] : e \in events}
  BY <1>1, <1>2
<1>4. IsFiniteSet(DOMAIN groups)
  BY <1>2, ImageFinite DEF Shows
<1>5. ASSUME NEW g \in DOMAIN groups
      PROVE  /\ groups[g] = Tally({e \in events : of[key[e]] = g})[f]
             /\ groups[g] \in Nat
  <2> DEFINE some == With(keys, of, g)
  <2>1. Shows(rows, some, WithAny(events, key, some), key)
    BY ShowsSome DEF With
  <2>2. WithAny(events, key, some) = {e \in events : of[key[e]] = g}
    BY <1>1 DEF WithAny, With
  <2>3. groups[g] = Sum(rows, some, f)
    BY <1>2
  <2> HIDE DEF some
  <2>4. Sum(rows, some, f) = Tally(WithAny(events, key, some))[f]
    BY <2>1, ShowsSum
  <2>5. IsFiniteSet(WithAny(events, key, some))
    BY <2>1 DEF Shows
  <2>6. Tally(WithAny(events, key, some))[f] \in Nat
    BY <2>5, TallyType
  <2> QED BY <2>2, <2>3, <2>4, <2>6
<1>6. IsFiniteSet(keys) /\ \A k \in keys : rows[k][f] \in Nat
  BY ShowsSum
<1>7. Total(groups) = Sum(rows, keys, f)
  BY <1>2, <1>6, GroupTotal
<1>8. Sum(rows, keys, f) = Tally(events)[f]
  BY ShowsSum
<1> QED BY <1>3, <1>4, <1>5, <1>7, <1>8 DEF Counts

\* The tables by the minute show the events of a range that they count.
LEMMA MinutesShow ==
  ASSUME BaseInv, DataInv, NEW t \in Plain, t \notin BlockedTables, NEW s \in Int, NEW u \in Int,
         NEW scope, s >= KeptSince(t), KeptSince(t) \in Int
  PROVE  Shows(tables[t], InRange(tables[t], s, u, scope),
               {e \in CountedByMinute(s, u, scope) : CountedIn(t, e)}, [e \in logged |-> Key(t, e)])
<1> DEFINE keys == InRange(tables[t], s, u, scope)
           mine == {e \in CountedByMinute(s, u, scope) : CountedIn(t, e)}
           key == [e \in logged |-> Key(t, e)]
<1>1. \A k \in keys : k \in DOMAIN tables[t] /\ ~(k.at < KeptSince(t))
  BY RangeKeys
<1>2. "requests" \in Figures
  BY DEF Figures
<1>3. /\ IsFiniteSet(keys)
      /\ \A k \in keys : /\ tables[t][k] = Tally(RowEvents(t, Flushed, k))
                         /\ \E e \in Flushed : CountedIn(t, e) /\ Key(t, e) = k
  BY <1>1, <1>2, RowsTrue
<1>4. \A e \in Flushed : CountedIn(t, e) => (Key(t, e) \in keys <=> e \in CountedByMinute(s, u, scope))
  BY InMinutes
<1>5. mine \subseteq Flushed /\ Flushed \subseteq logged
  BY DEF CountedByMinute, Flushed
<1>6. IsFiniteSet(mine)
  BY CountedFinite, FS_Subset
<1> HIDE DEF keys
<1>7. keys = {key[e] : e \in mine}
  <2>1. ASSUME NEW k \in keys PROVE k \in {key[e] : e \in mine}
    <3>1. PICK e \in Flushed : CountedIn(t, e) /\ Key(t, e) = k
      BY <1>3
    <3> QED BY <1>4, <1>5, <3>1
  <2>2. ASSUME NEW e \in mine PROVE key[e] \in keys
    BY <1>4, <1>5
  <2> QED BY <2>1, <2>2
<1>8. ASSUME NEW k \in keys PROVE tables[t][k] = Tally(With(mine, key, k))
  <2>1. RowEvents(t, Flushed, k) = With(mine, key, k)
    BY <1>4, <1>5 DEF RowEvents, With
  <2> QED BY <1>3, <2>1
<1> QED BY <1>3, <1>6, <1>7, <1>8 DEF Shows, keys

-----------------------------------------------------------------------------
(* Series.                                                                  *)

\* A bucket is filling from the start of the one that now is in.
LEMMA TruncateOrder ==
  ASSUME NEW size \in Nat \ {0}, NEW x \in Int, NEW y \in Int
  PROVE  Filling(x, size, y) <=> x >= Truncate(y, size)
<1>1. ASSUME NEW z \in Int
      PROVE  /\ Truncate(z, size) \in Int /\ Truncate(z, size) <= z /\ z - size < Truncate(z, size)
             /\ \E p \in Int : Truncate(z, size) = size * p
  <2>1. z % size \in 0..size - 1 /\ z - (z % size) = size * (z \div size) /\ z \div size \in Int
    OBVIOUS
  <2> DEFINE d == z \div size
             w == z - (z % size)
  <2>2. w \in Int /\ w <= z /\ z - size < w
    BY <2>1
  <2>3. d \in Int /\ w = size * d
    BY <2>1
  <2> HIDE DEF d, w
  <2>4. /\ w \in Int /\ w <= z /\ z - size < w
        /\ \E p \in Int : w = size * p
    BY <2>2, <2>3
  <2> QED BY <2>4 DEF Truncate, w
<1>2. PICK p \in Int : Truncate(x, size) = size * p
  BY <1>1
<1>3. PICK q \in Int : Truncate(y, size) = size * q
  BY <1>1
<1>4. size * p < size * q => size * p + size <= size * q
  BY MultiplesApart
<1> DEFINE u == size * p
           v == size * q
<1> HIDE DEF u, v
<1>5. Truncate(x, size) = u /\ Truncate(y, size) = v /\ (u < v => u + size <= v)
  BY <1>2, <1>3, <1>4 DEF u, v
<1>6. /\ u \in Int /\ u <= x /\ x - size < u /\ v \in Int
  BY <1>1, <1>5
<1> QED BY <1>5, <1>6 DEF Filling

\* A series adds up to the events before the bucket that is filling.
LEMMA SeriesOf ==
  ASSUME NEW rows, NEW keys, NEW events, NEW key, Shows(rows, keys, events, key),
         \A e \in events : key[e].at = FloorMinute(e.at) /\ FloorMinute(e.at) \in Int,
         clock \in Int, NEW size \in Nat \ {0}, NEW f \in Figures, NEW some \in SUBSET keys, NEW of, NEW groups,
         \A k \in keys : k \in some <=> ~Filling(k.at, size, clock),
         Grouped(groups, rows, some, of, f)
  PROVE  Total(groups) = Tally({e \in events : FloorMinute(e.at) < Truncate(clock, size)})[f]
<1> DEFINE mine == WithAny(events, key, some)
<1>1. Shows(rows, some, mine, key)
  BY ShowsSome
<1>2. Total(groups) = Tally(mine)[f]
  <2> HIDE DEF mine
  <2>1. Counts(groups, mine, of, key, f)
    BY <1>1, ShowsGroups
  <2> QED BY <2>1 DEF Counts
<1>3. mine = {e \in events : FloorMinute(e.at) < Truncate(clock, size)}
  <2>1. ASSUME NEW e \in events PROVE key[e] \in some <=> FloorMinute(e.at) < Truncate(clock, size)
    <3>1. key[e] \in keys
      BY DEF Shows
    <3>2. Filling(FloorMinute(e.at), size, clock) <=> FloorMinute(e.at) >= Truncate(clock, size)
      BY TruncateOrder
    <3>3. Truncate(clock, size) \in Int
      BY DEF Truncate
    <3> QED BY <3>1, <3>2, <3>3
  <2> QED BY <2>1 DEF WithAny
<1> QED BY <1>2, <1>3

\* A series has buckets of some length.
LEMMA SizeIs ==
  ASSUME NEW since \in Int, NEW until \in Int
  PROVE  Granularity(Hour, since, until) \in Nat \ {0}
  BY TablesAssumption, PagesAssumption DEF Granularity

\* The rows left out of the heatmap have nothing to add.
LEMMA HeatmapIs ==
  ASSUME NEW keys, NEW events, NEW key, Shows(tables.minute, keys, events, key), NEW f \in Figures,
         NEW some \in SUBSET keys, \A k \in keys : k \in some <=> tables.minute[k][f] > 0,
         NEW of, NEW groups, Grouped(groups, tables.minute, some, of, f)
  PROVE  Total(groups) = Tally(events)[f]
<1> DEFINE mine == WithAny(events, key, some)
<1>1. Shows(tables.minute, some, mine, key)
  BY ShowsSome
<1>2. Total(groups) = Tally(mine)[f]
  <2> HIDE DEF mine
  <2>1. Counts(groups, mine, of, key, f)
    BY <1>1, ShowsGroups
  <2> QED BY <2>1 DEF Counts
<1>3. {e \in mine : Is(f, e)} = {e \in events : Is(f, e)}
  <2>1. ASSUME NEW e \in events, Is(f, e) PROVE key[e] \in some
    <3> DEFINE with == With(events, key, key[e])
    <3>1. key[e] \in keys
      BY DEF Shows
    <3>2. IsFiniteSet(with)
      BY FS_Subset DEF With, Shows
    <3>3. tables.minute[key[e]] = Tally(with)
      BY <3>1 DEF Shows
    <3>4. Tally(with)[f] = Cardinality({x \in with : Is(f, x)})
      BY TallyIs
    <3>5. IsFiniteSet({x \in with : Is(f, x)}) /\ e \in {x \in with : Is(f, x)}
      BY <2>1, <3>2, FS_Subset DEF With
    <3> HIDE DEF with
    <3>6. Cardinality({x \in with : Is(f, x)}) > 0
      <4> DEFINE c == {x \in with : Is(f, x)}
      <4>1. IsFiniteSet(c) /\ c # {}
        BY <3>5
      <4> HIDE DEF c
      <4>2. Cardinality(c) \in Nat /\ Cardinality(c) # 0
        BY <4>1, FS_CardinalityType, FS_EmptySet
      <4>3. Cardinality(c) > 0
        BY <4>2
      <4> QED BY <4>3 DEF c
    <3> QED BY <3>1, <3>3, <3>4, <3>6
  <2> QED BY <2>1 DEF WithAny
<1>4. Tally(mine)[f] = Tally(events)[f]
  BY <1>3, TallyIs
<1> QED BY <1>2, <1>4

\* What the tables of the traffic show of a range.
LEMMA TrafficShows ==
  ASSUME BaseInv, DataInv, NEW since \in Int, NEW until \in Int, NEW scope,
         since >= clock - Aggregates
  PROVE  LET seen == CountedByMinute(since, until, scope) IN
         /\ Shows(tables["minute"], InRange(tables["minute"], since, until, scope), seen,
                  [e \in logged |-> Key("minute", e)])
         /\ \A t \in {"domain", "category"} :
              Shows(tables[t], InRange(tables[t], since, until, scope), Named(seen),
                    [e \in logged |-> Key(t, e)])
<1> DEFINE seen == CountedByMinute(since, until, scope)
<1>1. clock \in Nat
  BY DEF BaseInv
<1>2. \A t \in {"minute", "domain", "category"} :
        /\ t \in Plain /\ t \notin BlockedTables
        /\ KeptSince(t) \in Int /\ since >= KeptSince(t)
  BY <1>1, TrafficKept
<1>3. \A t \in {"minute", "domain", "category"} :
        Shows(tables[t], InRange(tables[t], since, until, scope),
              {e \in seen : CountedIn(t, e)}, [e \in logged |-> Key(t, e)])
  BY <1>2, MinutesShow
<1>4. /\ {e \in seen : CountedIn("minute", e)} = seen
      /\ {e \in seen : CountedIn("domain", e)} = Named(seen)
      /\ {e \in seen : CountedIn("category", e)} = Named(seen)
  BY CountedIns
<1> HIDE DEF seen
<1>5. Shows(tables["minute"], InRange(tables["minute"], since, until, scope), seen,
            [e \in logged |-> Key("minute", e)])
  BY <1>3, <1>4
<1>6. ASSUME NEW t \in {"domain", "category"}
      PROVE  Shows(tables[t], InRange(tables[t], since, until, scope), Named(seen),
                   [e \in logged |-> Key(t, e)])
  BY <1>3, <1>4
<1> QED BY <1>5, <1>6 DEF seen

\* The times in the keys of the tables by the minute.
LEMMA MinuteTimes ==
  ASSUME BaseInv, NEW t \in Plain, t \notin BlockedTables, NEW e \in Flushed
  PROVE  Key(t, e).at = FloorMinute(e.at) /\ FloorMinute(e.at) \in Nat /\ e \in logged /\ Key(t, e).branch = e.branch
<1>1. e.at \in Nat /\ e \in logged
  BY DEF BaseInv, Flushed
<1>2. Key(t, e).at = FloorMinute(e.at) /\ Key(t, e).branch = e.branch
  BY KeyFacts
<1>3. FloorMinute(e.at) \in Nat
  BY <1>1, FloorFacts
<1> QED BY <1>1, <1>2, <1>3

\* The trends and the heatmap.
LEMMA SeriesTruth ==
  ASSUME BaseInv, DataInv, NEW ask, ask.since \in Int, ask.until \in Int,
         ask.since >= clock - Aggregates
  PROVE  SeriesAgree(ask)
<1> DEFINE since == ask.since
           until == ask.until
           scope == ask.scope
           seen == SeenBy(ask)
           size == Granularity(Hour, since, until)
           done == {e \in seen : FloorMinute(e.at) < Truncate(clock, size)}
           mins == InRange(tables["minute"], since, until, scope)
           doms == InRange(tables["domain"], since, until, scope)
           minute == [e \in logged |-> Key("minute", e)]
           domain == [e \in logged |-> Key("domain", e)]
<1>1. /\ Shows(tables["minute"], mins, seen, minute)
      /\ Shows(tables["domain"], doms, Named(seen), domain)
  BY TrafficShows DEF SeenBy
<1>2. "requests" \in Figures /\ "blocked" \in Figures
  BY DEF Figures
<1>3. seen \subseteq Flushed /\ Named(seen) \subseteq seen
  BY DEF SeenBy, CountedByMinute, Flushed, Named
<1>4. /\ \A e \in seen : minute[e].at = FloorMinute(e.at) /\ FloorMinute(e.at) \in Int
      /\ \A e \in Named(seen) : domain[e].at = FloorMinute(e.at) /\ FloorMinute(e.at) \in Int
  <2>1. {"minute", "domain"} \subseteq Plain \ BlockedTables
    BY ColumnsOf DEF Plain, Tabled
  <2> QED BY <1>3, <2>1, MinuteTimes
<1>5. clock \in Int /\ size \in Nat \ {0}
  <2>1. clock \in Nat
    BY DEF BaseInv
  <2>2. size \in Nat \ {0}
    BY SizeIs
  <2> QED BY <2>1, <2>2
<1> HIDE DEF seen, minute, domain, size
<1>6. Total(CategoryTrend(tables, Hour, since, until, scope, clock)) = Cardinality(Named(done))
  <2> DEFINE some == {k \in doms : ~Filling(k.at, size, clock)}
             of == [k \in some |-> <<Truncate(k.at, size), Category[k.domain]>>]
             groups == CategoryTrend(tables, Hour, since, until, scope, clock)
  <2>1. groups = [g \in {of[k] : k \in some} |->
                    Sum(tables["domain"], {k \in some : of[k] = g}, "requests")]
    BY DEF CategoryTrend, Series, GroupBy, size
  <2>2. some \in SUBSET doms /\ \A k \in doms : k \in some <=> ~Filling(k.at, size, clock)
    OBVIOUS
  <2> HIDE DEF of, groups, doms, some
  <2>3. Grouped(groups, tables["domain"], some, of, "requests")
    BY <2>1 DEF With, Grouped
  <2>4. Total(groups) = Tally({e \in Named(seen) : FloorMinute(e.at) < Truncate(clock, size)})["requests"]
    BY <1>1, <1>2, <1>4, <1>5, <2>2, <2>3, SeriesOf
  <2>5. {e \in Named(seen) : FloorMinute(e.at) < Truncate(clock, size)} = Named(done)
    BY DEF Named
  <2>6. IsFiniteSet(Named(done))
    <3>1. IsFiniteSet(Named(seen)) /\ Named(done) \subseteq Named(seen)
      BY <1>1 DEF Shows, Named
    <3> QED BY <3>1, FS_Subset
  <2>7. Tally(Named(done))["requests"] = Cardinality(Named(done))
    BY <1>2, <2>6, TallyType
  <2> QED BY <2>4, <2>5, <2>7 DEF groups
<1>7. Total(BranchTrend(tables, Hour, since, until, scope, clock, "blocked")) = Tally(done).blocked
  <2> DEFINE some == {k \in mins : ~Filling(k.at, size, clock)}
             of == [k \in some |-> <<Truncate(k.at, size), k.branch>>]
             groups == BranchTrend(tables, Hour, since, until, scope, clock, "blocked")
  <2>1. groups = [g \in {of[k] : k \in some} |->
                    Sum(tables["minute"], {k \in some : of[k] = g}, "blocked")]
    BY DEF BranchTrend, Series, GroupBy, size
  <2>2. some \in SUBSET mins /\ \A k \in mins : k \in some <=> ~Filling(k.at, size, clock)
    OBVIOUS
  <2> HIDE DEF of, groups, mins, some
  <2>3. Grouped(groups, tables["minute"], some, of, "blocked")
    BY <2>1 DEF With, Grouped
  <2> HIDE DEF done
  <2>4. Total(groups) = Tally({e \in seen : FloorMinute(e.at) < Truncate(clock, size)})["blocked"]
    <3>1. Shows(tables["minute"], mins, seen, minute)
      BY <1>1
    <3>2. \A e \in seen : minute[e].at = FloorMinute(e.at) /\ FloorMinute(e.at) \in Int
      BY <1>4
    <3>3. "blocked" \in Figures
      BY <1>2
    <3> QED BY <1>5, <2>2, <2>3, <3>1, <3>2, <3>3, SeriesOf
  <2> QED BY <2>4 DEF groups, done
<1>8. ASSUME NEW shift, NEW f \in Figures
      PROVE  Total(Heatmap(tables, since, until, scope, shift, f)) = Tally(seen)[f]
  <2> DEFINE some == {k \in mins : tables["minute"][k][f] > 0}
             of == [k \in some |-> FloorHour((k.at + shift) % Day)]
             groups == Heatmap(tables, since, until, scope, shift, f)
  <2>1. groups = [g \in {of[k] : k \in some} |->
                    Sum(tables["minute"], {k \in some : of[k] = g}, f)]
    BY DEF Heatmap, GroupBy
  <2>2. some \in SUBSET mins /\ \A k \in mins : k \in some <=> tables["minute"][k][f] > 0
    OBVIOUS
  <2> HIDE DEF of, groups, mins, some
  <2>3. Grouped(groups, tables["minute"], some, of, f)
    BY <2>1 DEF With, Grouped
  <2>4. Total(groups) = Tally(seen)[f]
    BY <1>1, <2>2, <2>3, HeatmapIs
  <2> QED BY <2>4 DEF groups
<1>9. Tally(seen)["requests"] = Cardinality(seen)
  <2>1. IsFiniteSet(seen)
    BY <1>1 DEF Shows
  <2> QED BY <1>2, <2>1, TallyType
<1>10. /\ Total(Heatmap(tables, since, until, scope, 1, "blocked")) = Tally(seen)["blocked"]
       /\ Total(Heatmap(tables, since, until, scope, 0, "requests")) = Tally(seen)["requests"]
  BY <1>2, <1>8
<1> QED BY <1>6, <1>7, <1>9, <1>10 DEF SeriesAgree, size, seen

\* A group counts its events, none if there is no such group.
LEMMA AtGroup ==
  ASSUME NEW rows, NEW keys, NEW events, NEW key, Shows(rows, keys, events, key),
         NEW f \in Figures, NEW of, NEW groups, Grouped(groups, rows, keys, of, f), NEW g
  PROVE  At(groups, g) = Tally({e \in events : of[key[e]] = g})[f]
<1>1. /\ DOMAIN groups = {of[key[e]] : e \in events}
      /\ \A i \in DOMAIN groups : groups[i] = Tally({e \in events : of[key[e]] = i})[f]
  <2>1. Counts(groups, events, of, key, f)
    BY ShowsGroups
  <2> QED BY <2>1 DEF Counts
<1>2. CASE g \in DOMAIN groups
  BY <1>1, <1>2 DEF At
<1>3. CASE g \notin DOMAIN groups
  <2>1. {e \in events : of[key[e]] = g} = {}
    BY <1>1, <1>3
  <2>2. Tally({})[f] = 0
    <3>1. IsFiniteSet({}) /\ Cardinality({}) = 0
      BY FS_EmptySet
    <3>2. /\ Tally({})[f] \in Nat /\ Tally({})[f] <= Cardinality({})
      BY <3>1, TallyType
    <3> QED BY <3>1, <3>2
  <2>3. At(groups, g) = 0
    BY <1>3 DEF At
  <2> QED BY <2>1, <2>2, <2>3
<1> QED BY <1>2, <1>3

\* What the table of the result codes shows of a range.
LEMMA CodesShow ==
  ASSUME BaseInv, DataInv, NEW since \in Int, NEW until \in Int, NEW scope, since >= clock - Ops
  PROVE  Shows(tables["code"], InRange(tables["code"], since, until, scope),
               CountedByMinute(since, until, scope), [e \in logged |-> Key("code", e)])
<1> DEFINE seen == CountedByMinute(since, until, scope)
<1>1. clock - Ops \in Int
  BY RetentionAssumption DEF BaseInv
<1>2. "code" \in Plain /\ "code" \notin BlockedTables /\ KeptSince("code") = clock - Ops
  BY ColumnsOf DEF Plain, Tabled, KeptSince
<1>3. {e \in seen : CountedIn("code", e)} = seen
  BY CountedIns
<1>4. since >= KeptSince("code") /\ KeptSince("code") \in Int
  BY <1>1, <1>2
<1>5. Shows(tables["code"], InRange(tables["code"], since, until, scope),
            {e \in seen : CountedIn("code", e)}, [e \in logged |-> Key("code", e)])
  BY <1>2, <1>4, MinutesShow
<1> HIDE DEF seen
<1> QED BY <1>3, <1>5 DEF seen

\* The result codes, their totals and their series.
LEMMA CodesPages ==
  ASSUME BaseInv, DataInv, NEW ask, ask.since \in Int, ask.until \in Int, ask.since >= clock - Ops
  PROVE  CodesAgree(ask)
<1> DEFINE since == ask.since
           until == ask.until
           scope == ask.scope
           seen == SeenBy(ask)
           size == Granularity(Hour, since, until)
           done == {e \in seen : FloorMinute(e.at) < Truncate(clock, size)}
           keys == InRange(tables["code"], since, until, scope)
           key == [e \in logged |-> Key("code", e)]
<1>1. Shows(tables["code"], keys, seen, key)
  BY CodesShow DEF SeenBy
<1>2. "requests" \in Figures /\ "hit" \in Figures /\ "miss" \in Figures
  BY DEF Figures
<1>3. seen \subseteq Flushed
  BY DEF SeenBy, CountedByMinute, Flushed
<1>4. "code" \in Plain /\ "code" \notin BlockedTables
  BY ColumnsOf DEF Plain, Tabled
<1>5. \A e \in seen : key[e] = Key("code", e) /\ key[e].at = FloorMinute(e.at) /\ FloorMinute(e.at) \in Int
  BY <1>3, <1>4, MinuteTimes
<1>6. \A e \in seen : key[e].action = e.action
  <2>1. ASSUME NEW e \in seen PROVE Key("code", e).action = e.action
    <3>1. "action" \in Columns["code"] /\ "action" # "at"
      BY ColumnsOf
    <3>2. Key("code", e)["action"] = Column("action", e)
      BY <3>1, KeyFacts
    <3> QED BY <3>2 DEF Column
  <2> QED BY <1>5, <2>1
<1>7. clock \in Int /\ size \in Nat \ {0}
  <2>1. clock \in Nat
    BY DEF BaseInv
  <2>2. size \in Nat \ {0}
    BY SizeIs
  <2> QED BY <2>1, <2>2
<1>8. IsFiniteSet(seen)
  BY <1>1 DEF Shows
<1> HIDE DEF seen, key, size
<1>9. /\ CodeTotals(tables, since, until, scope).hit = Tally(seen).hit
      /\ CodeTotals(tables, since, until, scope).miss = Tally(seen).miss
  <2> DEFINE of == [k \in keys |-> k.action]
             groups == GroupBy(tables["code"], keys, LAMBDA k : k.action, "requests")
  <2>1. groups = [g \in {of[k] : k \in keys} |-> Sum(tables["code"], {k \in keys : of[k] = g}, "requests")]
    BY DEF GroupBy
  <2>2. /\ CodeTotals(tables, since, until, scope).hit = At(groups, "hit")
        /\ CodeTotals(tables, since, until, scope).miss = At(groups, "miss")
    BY DEF CodeTotals
  <2>3. \A e \in seen : of[key[e]] = e.action
    BY <1>1, <1>6 DEF Shows
  <2> HIDE DEF of, groups, keys
  <2>4. Grouped(groups, tables["code"], keys, of, "requests")
    BY <2>1 DEF With, Grouped
  <2>5. ASSUME NEW g
        PROVE  At(groups, g) = Cardinality({e \in seen : e.action = g})
    <3>1. At(groups, g) = Tally({e \in seen : of[key[e]] = g})["requests"]
      BY <1>1, <1>2, <2>4, AtGroup
    <3>2. {e \in seen : of[key[e]] = g} = {e \in seen : e.action = g}
      BY <2>3
    <3>3. IsFiniteSet({e \in seen : e.action = g})
      BY <1>8, FS_Subset
    <3>4. Tally({e \in seen : e.action = g})["requests"] = Cardinality({e \in seen : e.action = g})
      BY <1>2, <3>3, TallyType
    <3> QED BY <3>1, <3>2, <3>4
  <2>6. /\ Tally(seen).hit = Cardinality({e \in seen : e.action = "hit"})
        /\ Tally(seen).miss = Cardinality({e \in seen : e.action = "miss"})
    <3>1. \A f \in Figures : Tally(seen)[f] = Cardinality({e \in seen : Is(f, e)})
      BY TallyIs
    <3>2. \A e \in seen : /\ Is("hit", e) <=> e.action = "hit"
                          /\ Is("miss", e) <=> e.action = "miss"
      BY DEF Is
    <3> QED BY <1>2, <3>1, <3>2
  <2> QED BY <2>2, <2>5, <2>6
<1>10. Total(ResultSeries(tables, size, since, until, scope, clock)) = Cardinality(done)
  <2> DEFINE some == {k \in keys : ~Filling(k.at, size, clock)}
             of == [k \in some |-> <<Truncate(k.at, size), k.action>>]
             groups == ResultSeries(tables, size, since, until, scope, clock)
  <2>1. groups = [g \in {of[k] : k \in some} |->
                    Sum(tables["code"], {k \in some : of[k] = g}, "requests")]
    BY DEF ResultSeries, GroupBy
  <2>2. some \in SUBSET keys /\ \A k \in keys : k \in some <=> ~Filling(k.at, size, clock)
    OBVIOUS
  <2>3. {e \in seen : FloorMinute(e.at) < Truncate(clock, size)} = done
    OBVIOUS
  <2>4. IsFiniteSet(done)
    BY <1>8, FS_Subset
  <2> HIDE DEF of, groups, keys, some, done
  <2>5. Grouped(groups, tables["code"], some, of, "requests")
    BY <2>1 DEF With, Grouped
  <2>6. \A e \in seen : key[e].at = FloorMinute(e.at) /\ FloorMinute(e.at) \in Int
    BY <1>5
  <2>7. Total(groups) = Tally({e \in seen : FloorMinute(e.at) < Truncate(clock, size)})["requests"]
    BY <1>1, <1>2, <1>7, <2>2, <2>5, <2>6, SeriesOf
  <2>8. Tally(done)["requests"] = Cardinality(done)
    BY <1>2, <2>4, TallyType
  <2> QED BY <2>3, <2>7, <2>8 DEF groups, done
<1> QED BY <1>9, <1>10 DEF CodesAgree, size, seen
-----------------------------------------------------------------------------
(* Branches.                                                                *)

\* No more elements than the parts have that they are in.
LEMMA SumCovers ==
  ASSUME NEW G, IsFiniteSet(G), NEW part, \A g \in G : IsFiniteSet(part[g]),
         NEW h, \A g \in G : h[g] = Cardinality(part[g])
  PROVE  /\ IsFiniteSet(UNION {part[g] : g \in G})
         /\ Cardinality(UNION {part[g] : g \in G}) <= SumOf(h, G)
<1> DEFINE Over(H) == UNION {part[g] : g \in H}
           Fits(H) == IsFiniteSet(Over(H)) /\ Cardinality(Over(H)) <= SumOf(h, H)
           B == {H \in SUBSET G : ~Fits(H)}
<1>1. SUFFICES ASSUME B # {} PROVE FALSE
  <2>1. G \in SUBSET G /\ G \notin B
    BY <1>1
  <2> QED BY <2>1
<1>2. PICK H \in B : IsFiniteSet(H) /\ \A g \in H : H \ {g} \notin B
  BY <1>1, SmallestSet
<1>3. H # {}
  <2>1. Over({}) = {}
    OBVIOUS
  <2>2. Cardinality({}) <= SumOf(h, {})
    BY SumEmpty, FS_EmptySet
  <2>3. Fits({})
    BY <2>1, <2>2, FS_EmptySet
  <2> QED BY <2>3
<1>4. PICK g \in H : TRUE
  BY <1>3
<1>5. Fits(H \ {g})
  BY <1>2, <1>4
<1>6. Over(H) = part[g] \cup Over(H \ {g})
  BY <1>4
<1>7. SumOf(h, H) = h[g] + SumOf(h, H \ {g}) /\ SumOf(h, H \ {g}) \in Nat
  <2>1. \A x \in H : h[x] \in Nat
    BY FS_CardinalityType
  <2>2. IsFiniteSet(H \ {g}) /\ \A x \in H \ {g} : h[x] \in Nat
    BY <1>2, <2>1, FS_Subset
  <2> QED BY <1>2, <1>4, <2>1, <2>2, SumWithout, SumNat
<1>8. IsFiniteSet(part[g]) /\ h[g] = Cardinality(part[g])
  BY <1>4
<1> HIDE DEF Over
<1>9. Fits(H)
  <2> DEFINE mine == part[g]
             rest == Over(H \ {g})
  <2>1. IsFiniteSet(mine) /\ IsFiniteSet(rest) /\ Cardinality(rest) <= SumOf(h, H \ {g})
    BY <1>5, <1>8
  <2> HIDE DEF mine, rest
  <2>2. /\ IsFiniteSet(mine \cup rest)
        /\ Cardinality(mine \cup rest)
             = Cardinality(mine) + Cardinality(rest) - Cardinality(mine \cap rest)
    BY <2>1, FS_Union
  <2>3. /\ Cardinality(mine) \in Nat /\ Cardinality(rest) \in Nat
        /\ Cardinality(mine \cap rest) \in Nat /\ Cardinality(mine \cup rest) \in Nat
    <3>1. IsFiniteSet(mine \cap rest)
      BY <2>1, FS_Subset
    <3> QED BY <2>1, <2>2, <3>1, FS_CardinalityType
  <2>4. Cardinality(mine \cup rest) <= Cardinality(mine) + Cardinality(rest)
    BY <2>2, <2>3
  <2>5. SumOf(h, H) = Cardinality(mine) + SumOf(h, H \ {g})
    BY <1>7, <1>8 DEF mine
  <2>6. Cardinality(mine \cup rest) <= SumOf(h, H)
    BY <1>7, <2>1, <2>3, <2>4, <2>5
  <2>7. Over(H) = mine \cup rest
    BY <1>6 DEF mine, rest
  <2> QED BY <2>2, <2>6, <2>7
<1> QED BY <1>2, <1>9

\* The events of a branch, and of a category.
OfBranch(events, b)   == {e \in events : e.branch = b}
OfCategory(events, c) == {e \in events : Category[e.domain] = c}

\* The branches of a scope have the events of a range between them.
LEMMA BranchesSum ==
  ASSUME NEW seen, IsFiniteSet(seen), NEW branches, IsFiniteSet(branches),
         \A e \in seen : e.branch \in branches, NEW f \in Figures, NEW rows, NEW c,
         \A b \in branches : rows[b][c] = Tally(OfBranch(seen, b))[f]
  PROVE  Sum(rows, branches, c) = Tally(seen)[f]
<1> DEFINE branch == [e \in seen |-> e.branch]
           true == [b \in branches |-> Tally(OfBranch(seen, b))]
           h == [b \in branches |-> rows[b][c]]
<1>1. \A b : With(seen, branch, b) = OfBranch(seen, b)
  BY DEF With, OfBranch
<1>2. WithAny(seen, branch, branches) = seen
  BY DEF WithAny
<1>3. \A b \in branches : true[b] = Tally(With(seen, branch, b))
  BY <1>1
<1>4. \A b \in branches : h[b] = rows[b][c] /\ h[b] = true[b][f]
  OBVIOUS
<1> HIDE DEF branch, true, h
<1>5. Sum(true, branches, f) = Tally(WithAny(seen, branch, branches))[f]
  BY <1>3, RowsSum
<1>6. Sum(true, branches, f) = SumOf(h, branches) /\ Sum(rows, branches, c) = SumOf(h, branches)
  BY <1>4, SumIs
<1> QED BY <1>2, <1>5, <1>6

\* The branches of a scope are those that its events come from.
LEMMA BranchesFinite ==
  ASSUME BaseInv, NEW ask \in Asked
  PROVE  /\ IsFiniteSet(BranchesInScope(ask.scope))
         /\ \A e \in logged : BranchMatches(e.branch, ask.scope) <=> e.branch \in BranchesInScope(ask.scope)
<1>1. ask.scope \in {Unrestricted} \cup {{b} : b \in Branches}
  BY DEF Asked
<1>2. IsFiniteSet(Branches) /\ \A b : IsFiniteSet({b})
  BY BranchesAssumption, FS_Singleton
<1>3. \A e \in logged : e.branch \in Branches
  BY DEF BaseInv
<1> QED BY <1>1, <1>2, <1>3 DEF BranchesInScope, BranchMatches

\* What one branch shows of the traffic.
LEMMA BranchAt ==
  ASSUME BaseInv, DataInv, NEW since \in Int, NEW until \in Int, NEW scope,
         since >= clock - Aggregates, NEW f \in Figures, NEW b
  PROVE  At(BranchTotals(tables, since, until, scope, f), b) =
           Tally(OfBranch(CountedByMinute(since, until, scope), b))[f]
<1> DEFINE seen == CountedByMinute(since, until, scope)
           keys == InRange(tables["minute"], since, until, scope)
           key == [e \in logged |-> Key("minute", e)]
           of == [k \in keys |-> k.branch]
           groups == BranchTotals(tables, since, until, scope, f)
<1>1. Shows(tables["minute"], keys, seen, key)
  BY TrafficShows
<1>2. \A e \in seen : key[e].branch = e.branch
  BY KeyFacts DEF CountedByMinute
<1>3. groups = [g \in {of[k] : k \in keys} |-> Sum(tables["minute"], {k \in keys : of[k] = g}, f)]
  BY DEF BranchTotals, GroupBy
<1>4. \A e \in seen : of[key[e]] = e.branch
  BY <1>1, <1>2 DEF Shows
<1> HIDE DEF seen, keys, key, of, groups
<1>5. Grouped(groups, tables["minute"], keys, of, f)
  BY <1>3 DEF With, Grouped
<1>6. At(groups, b) = Tally({e \in seen : of[key[e]] = b})[f]
  BY <1>1, <1>5, AtGroup
<1>7. {e \in seen : of[key[e]] = b} = OfBranch(seen, b)
  BY <1>4 DEF OfBranch
<1> QED BY <1>6, <1>7 DEF groups, seen

\* The rows of the domains show the requests that name one.
LEMMA DomainKeys ==
  ASSUME NEW seen \in SUBSET logged, NEW e \in seen
  PROVE  LET key == [x \in logged |-> Key("domain", x)] IN
         key[e].domain = e.domain /\ key[e].branch = e.branch
<1>1. "domain" \in Columns["domain"] /\ "domain" # "at"
  BY ColumnsOf
<1>2. Key("domain", e)["domain"] = Column("domain", e) /\ Key("domain", e).branch = e.branch
  BY <1>1, KeyFacts
<1> QED BY <1>2 DEF Column

\* What one category shows of the traffic.
LEMMA CategoryAt ==
  ASSUME BaseInv, DataInv, NEW since \in Int, NEW until \in Int, NEW scope,
         since >= clock - Aggregates, NEW c
  PROVE  LET groups == Categories(tables, since, until, scope, "requests") IN
         (IF c \in DOMAIN groups THEN groups[c] ELSE 0) =
           Cardinality(OfCategory(Named(CountedByMinute(since, until, scope)), c))
<1> DEFINE seen == Named(CountedByMinute(since, until, scope))
           keys == InRange(tables["domain"], since, until, scope)
           key == [e \in logged |-> Key("domain", e)]
           of == [k \in keys |-> Category[k.domain]]
           groups == Categories(tables, since, until, scope, "requests")
           mine == OfCategory(seen, c)
<1>1. Shows(tables["domain"], keys, seen, key) /\ "requests" \in Figures
  BY TrafficShows DEF Figures
<1>2. seen \subseteq logged
  BY DEF CountedByMinute, Named
<1>3. groups = [g \in {of[k] : k \in keys} |->
                  Sum(tables["domain"], {k \in keys : of[k] = g}, "requests")]
  BY DEF Categories, GroupBy
<1>4. \A e \in seen : of[key[e]] = Category[e.domain]
  <2>1. \A e \in seen : key[e].domain = e.domain /\ key[e] \in keys
    BY <1>1, <1>2, DomainKeys DEF Shows
  <2> HIDE DEF seen, keys, key
  <2> QED BY <2>1
<1> HIDE DEF seen, keys, key, of, groups
<1>5. Grouped(groups, tables["domain"], keys, of, "requests")
  BY <1>3 DEF With, Grouped
<1>6. At(groups, c) = Tally({e \in seen : of[key[e]] = c})["requests"]
  BY <1>1, <1>5, AtGroup
<1>7. {e \in seen : of[key[e]] = c} = mine
  BY <1>4 DEF OfCategory
<1>8. Tally(mine)["requests"] = Cardinality(mine)
  <2>1. IsFiniteSet(mine)
    BY <1>1, FS_Subset DEF Shows, OfCategory
  <2> QED BY <1>1, <2>1, TallyType
<1> QED BY <1>6, <1>7, <1>8 DEF At, groups, seen
\* A client is listed under each branch that it has rows of.
LEMMA BranchClients ==
  ASSUME BaseInv, DataInv, NEW ask \in Asked, NEW rows,
         rows = BranchBreakdown(tables, ask.since, ask.until, ask.scope)
  PROVE  Sum(rows, BranchesInScope(ask.scope), "clients") >=
           Cardinality(ActiveClients(tables, ask.since, ask.until, ask.scope))
<1> DEFINE branches == BranchesInScope(ask.scope)
           all == DOMAIN ClientRows(tables, ask.since, ask.until, Unrestricted)
           some == DOMAIN ClientRows(tables, ask.since, ask.until, ask.scope)
           part == [b \in branches |-> {r.row.client : r \in {q \in all : q.row.branch = b}}]
           h == [b \in branches |-> rows[b]["clients"]]
<1>1. ask.since \in Int /\ ask.until \in Int
  BY AskedTimes
<1>2. PICK kept, summed, seen \in SUBSET Flushed : RolledUpTo(kept, summed, seen)
  BY DEF DataInv, ClientsInv
<1>3. ASSUME NEW scope
      PROVE  AreRowsOf(ClientRows(tables, ask.since, ask.until, scope), kept,
                       ClientEvents(kept, summed, ask.since, ask.until, scope))
  <2>1. /\ kept \cap summed = {}
        /\ tables["client"] = Buckets("client", kept) /\ tables["hourly"] = Hours(summed)
    BY <1>2 DEF RolledUpTo
  <2> QED BY <1>1, <2>1, ClientRowsAre
<1>4. some \subseteq all
  BY DEF ClientRows, InRange, BranchMatches
<1>5. ASSUME NEW r \in some PROVE r.row.branch \in branches
  <2> DEFINE mine == ClientEvents(kept, summed, ask.since, ask.until, ask.scope)
  <2>0. some = {ClientRow(kept, e) : e \in mine}
    <3>1. AreRowsOf(ClientRows(tables, ask.since, ask.until, ask.scope), kept, mine)
      BY <1>3
    <3> QED BY <3>1 DEF AreRowsOf
  <2>1. PICK e \in mine : r = ClientRow(kept, e)
    <3> HIDE DEF mine, some
    <3> QED BY <1>5, <2>0
  <2>2. e \in logged /\ BranchMatches(e.branch, ask.scope)
    BY DEF ClientEvents, Flushed
  <2>3. e.at \in Nat
    BY <2>2 DEF BaseInv
  <2>4. r.row.branch = e.branch
    BY <2>1, <2>3, ClientRowIs
  <2> QED BY <2>2, <2>4, BranchesFinite
<1>6. IsFiniteSet(all) /\ IsFiniteSet(branches)
  BY <1>3, BranchesFinite DEF AreRowsOf
<1> DEFINE client == [r \in all |-> r.row.client]
<1>7. \A b \in branches : /\ part[b] = {client[r] : r \in {q \in all : q.row.branch = b}}
                          /\ h[b] = Cardinality(part[b]) /\ h[b] = rows[b]["clients"]
  BY DEF BranchBreakdown
<1>8. ActiveClients(tables, ask.since, ask.until, ask.scope) = {client[r] : r \in some}
  BY <1>4 DEF ActiveClients
<1> HIDE DEF branches, all, some, part, h, client
<1>9. \A b \in branches : IsFiniteSet(part[b])
  <2>1. ASSUME NEW b \in branches PROVE IsFiniteSet(part[b])
    <3>1. IsFiniteSet({q \in all : q.row.branch = b})
      BY <1>6, FS_Subset
    <3> QED BY <1>7, <3>1, ImageFinite
  <2> QED BY <2>1
<1>10. {client[r] : r \in some} \subseteq UNION {part[b] : b \in branches}
  BY <1>4, <1>5, <1>7
<1>11. /\ IsFiniteSet(UNION {part[b] : b \in branches})
       /\ Cardinality(UNION {part[b] : b \in branches}) <= SumOf(h, branches)
  BY <1>6, <1>7, <1>9, SumCovers
<1>12. Sum(rows, branches, "clients") = SumOf(h, branches)
  BY <1>6, <1>7, SumIs
<1>13. /\ IsFiniteSet({client[r] : r \in some})
       /\ Cardinality({client[r] : r \in some}) <= Cardinality(UNION {part[b] : b \in branches})
  BY <1>10, <1>11, FS_Subset
<1>14. /\ Cardinality({client[r] : r \in some}) \in Nat
       /\ Cardinality(UNION {part[b] : b \in branches}) \in Nat
       /\ SumOf(h, branches) \in Nat
  <2>1. \A b \in branches : h[b] \in Nat
    BY <1>7, <1>9, FS_CardinalityType
  <2> QED BY <1>6, <1>11, <1>13, <2>1, FS_CardinalityType, SumNat
<1> QED BY <1>8, <1>11, <1>12, <1>13, <1>14 DEF branches

\* What is not there adds nothing.
LEMMA TotalPositive ==
  ASSUME NEW groups, IsFiniteSet(DOMAIN groups), \A g \in DOMAIN groups : groups[g] \in Nat,
         NEW some, some = [g \in {h \in DOMAIN groups : groups[h] > 0} |-> groups[g]]
  PROVE  Total(some) = Total(groups)
<1> DEFINE D == DOMAIN groups
           P == {h \in D : groups[h] > 0}
           Z == D \ P
<1>1. DOMAIN some = P /\ \A g \in P : some[g] = groups[g]
  OBVIOUS
<1>2. IsFiniteSet(P) /\ IsFiniteSet(Z) /\ P \cap Z = {} /\ P \cup Z = D
  BY FS_Subset
<1>3. \A g \in P \cup Z : groups[g] \in Nat
  OBVIOUS
<1>4. SumOf(groups, Z) = 0
  <2> DEFINE none == [e \in {} |-> e]
  <2>1. \A g \in Z : groups[g] = 0
    OBVIOUS
  <2>2. \A g : With({}, none, g) = {} /\ WithAny({}, none, Z) = {}
    BY DEF With, WithAny
  <2>3. IsFiniteSet({}) /\ Cardinality({}) = 0
    BY FS_EmptySet
  <2> HIDE DEF none, Z
  <2>4. \A g \in Z : groups[g] = Cardinality(With({}, none, g))
    BY <2>1, <2>2, <2>3
  <2>5. SumOf(groups, Z) = Cardinality(WithAny({}, none, Z))
    BY <1>2, <2>3, <2>4, SumFibres
  <2> QED BY <2>2, <2>3, <2>5
<1>5. Total(groups) = SumOf(groups, D)
  BY TotalIs
<1> HIDE DEF D, P, Z
<1>6. Total(some) = SumOf(some, P)
  BY <1>1, <1>2, TotalIs
<1>7. SumOf(some, P) = SumOf(groups, P)
  BY <1>1, <1>2, SumCongruent
<1>8. SumOf(groups, P \cup Z) = SumOf(groups, P) + SumOf(groups, Z)
  BY <1>2, <1>3, SumUnion
<1>9. SumOf(groups, P) \in Nat
  BY <1>2, <1>3, SumNat
<1> QED BY <1>2, <1>4, <1>5, <1>6, <1>7, <1>8, <1>9

\* The domains of a branch, and their categories.
DomainsCount(all, seen, f) ==
  /\ DOMAIN all = {<<e.branch, e.domain>> : e \in seen} /\ IsFiniteSet(DOMAIN all)
  /\ \A g \in DOMAIN all : /\ all[g] = Tally({e \in seen : <<e.branch, e.domain>> = g})[f]
                            /\ all[g] \in Nat
  /\ Total(all) = Tally(seen)[f]

LEMMA BranchDomainsCount ==
  ASSUME BaseInv, DataInv, NEW since \in Int, NEW until \in Int, NEW scope,
         since >= clock - Aggregates
  PROVE  LET seen == Named(CountedByMinute(since, until, scope)) IN
         /\ \A f \in Figures : DomainsCount(BranchDomains(tables, since, until, scope, f), seen, f)
         /\ Total(BranchCategories(tables, since, until, scope)) = Cardinality(seen)
<1> DEFINE seen == Named(CountedByMinute(since, until, scope))
           keys == InRange(tables["domain"], since, until, scope)
           key == [e \in logged |-> Key("domain", e)]
<1>1. Shows(tables["domain"], keys, seen, key) /\ "requests" \in Figures
  BY TrafficShows DEF Figures
<1>2. seen \subseteq logged
  BY DEF CountedByMinute, Named
<1>3. \A e \in seen : key[e].domain = e.domain /\ key[e].branch = e.branch /\ key[e] \in keys
  BY <1>1, <1>2, DomainKeys DEF Shows
<1> HIDE DEF seen, keys, key
<1>4. ASSUME NEW f \in Figures
      PROVE  DomainsCount(BranchDomains(tables, since, until, scope, f), seen, f)
  <2> DEFINE of == [k \in keys |-> <<k.branch, k.domain>>]
             all == BranchDomains(tables, since, until, scope, f)
  <2>1. all = [g \in {of[k] : k \in keys} |-> Sum(tables["domain"], {k \in keys : of[k] = g}, f)]
    BY DEF BranchDomains, GroupBy, keys
  <2>2. \A e \in seen : of[key[e]] = <<e.branch, e.domain>>
    BY <1>3
  <2> HIDE DEF of, all
  <2>3. Grouped(all, tables["domain"], keys, of, f)
    BY <2>1 DEF With, Grouped
  <2>4. Counts(all, seen, of, key, f)
    BY <1>1, <2>3, ShowsGroups
  <2>5. /\ DOMAIN all = {of[key[e]] : e \in seen} /\ IsFiniteSet(DOMAIN all)
        /\ Total(all) = Tally(seen)[f]
        /\ \A g \in DOMAIN all : /\ all[g] = Tally({e \in seen : of[key[e]] = g})[f]
                                 /\ all[g] \in Nat
    BY <2>4 DEF Counts
  <2>6. {of[key[e]] : e \in seen} = {<<e.branch, e.domain>> : e \in seen}
    BY <2>2
  <2>7. ASSUME NEW g
        PROVE  {e \in seen : of[key[e]] = g} = {e \in seen : <<e.branch, e.domain>> = g}
    BY <2>2
  <2>8. \A g \in DOMAIN all : /\ all[g] = Tally({e \in seen : <<e.branch, e.domain>> = g})[f]
                              /\ all[g] \in Nat
    BY <2>5, <2>7
  <2> QED BY <2>5, <2>6, <2>8 DEF DomainsCount, all
<1>5. Total(BranchCategories(tables, since, until, scope)) = Cardinality(seen)
  <2> DEFINE of == [k \in keys |-> <<k.branch, Category[k.domain]>>]
             groups == BranchCategories(tables, since, until, scope)
  <2>1. groups = [g \in {of[k] : k \in keys} |->
                    Sum(tables["domain"], {k \in keys : of[k] = g}, "requests")]
    BY DEF BranchCategories, GroupBy, keys
  <2> HIDE DEF of, groups
  <2>2. Grouped(groups, tables["domain"], keys, of, "requests")
    BY <2>1 DEF With, Grouped
  <2>3. Counts(groups, seen, of, key, "requests")
    BY <1>1, <2>2, ShowsGroups
  <2>4. Total(groups) = Tally(seen)["requests"]
    BY <2>3 DEF Counts
  <2>5. Tally(seen)["requests"] = Cardinality(seen)
    <3>1. IsFiniteSet(seen)
      BY <1>1 DEF Shows
    <3> QED BY <1>1, <3>1, TallyType
  <2> QED BY <2>4, <2>5 DEF groups
<1> QED BY <1>4, <1>5 DEF seen
\* Every uncategorised domain is brought up by some branch, none twice by one.
LEMMA TaggedDomains ==
  ASSUME BaseInv, DataInv, NEW ask \in Asked, ask.since >= clock - Aggregates, Threshold = 1,
         NEW tagged, tagged = Uncategorized(tables, ask.since, ask.until, ask.scope),
         NEW labels, labels = {d \in {e.domain : e \in Named(SeenBy(ask))} :
                                 Category[d] = "uncategorized"}
  PROVE  /\ Total(tagged) >= Cardinality(labels)
         /\ \A b \in BranchesInScope(ask.scope) : tagged[b] <= Cardinality(labels)
<1> DEFINE branches == BranchesInScope(ask.scope)
           seen == Named(SeenBy(ask))
           all == BranchDomains(tables, ask.since, ask.until, ask.scope, "requests")
           Plain2(g) == Category[g[2]] = "uncategorized"
           part == [b \in branches |-> {g \in DOMAIN all : g[1] = b /\ Plain2(g)}]
<1>1. ask.since \in Int /\ ask.until \in Int /\ "requests" \in Figures
  BY AskedTimes DEF Figures
<1>2. IsFiniteSet(seen) /\ seen \subseteq logged
  <2>1. IsFiniteSet(Named(CountedByMinute(ask.since, ask.until, ask.scope)))
    BY CountedFinite
  <2> QED BY <2>1 DEF SeenBy, CountedByMinute, Named
<1>3. /\ DOMAIN all = {<<e.branch, e.domain>> : e \in seen} /\ IsFiniteSet(DOMAIN all)
      /\ \A g \in DOMAIN all : /\ all[g] = Tally({e \in seen : <<e.branch, e.domain>> = g})["requests"]
                               /\ all[g] \in Nat
  <2>1. \A f \in Figures :
          DomainsCount(BranchDomains(tables, ask.since, ask.until, ask.scope, f),
                       Named(CountedByMinute(ask.since, ask.until, ask.scope)), f)
    BY <1>1, BranchDomainsCount
  <2>2. DomainsCount(all, seen, "requests")
    BY <1>1, <2>1 DEF SeenBy
  <2> HIDE DEF all, seen
  <2> QED BY <2>2 DEF DomainsCount
<1>4. IsFiniteSet(branches) /\ \A e \in seen : e.branch \in branches
  <2>1. \A e \in seen : e \in logged /\ BranchMatches(e.branch, ask.scope)
    BY DEF SeenBy, CountedByMinute, Named
  <2> QED BY <2>1, BranchesFinite
<1>5. tagged = [b \in branches |->
                  Cardinality({g \in DOMAIN all : /\ g[1] = b
                                                  /\ Threshold > 0 /\ all[g] >= Threshold
                                                  /\ Plain2(g)})]
  BY DEF Uncategorized
<1> HIDE DEF all, seen, branches
<1>6. ASSUME NEW g \in DOMAIN all PROVE all[g] >= 1
  <2> DEFINE mine == {e \in seen : <<e.branch, e.domain>> = g}
  <2>1. mine # {} /\ IsFiniteSet(mine)
    BY <1>2, <1>3, <1>6, FS_Subset
  <2>2. all[g] = Tally(mine)["requests"] /\ all[g] \in Nat
    BY <1>3, <1>6
  <2> HIDE DEF mine
  <2>3. Tally(mine)["requests"] = Cardinality(mine)
    BY <1>1, <2>1, TallyType
  <2>4. Cardinality(mine) # 0
    BY <2>1, FS_EmptySet
  <2> QED BY <2>2, <2>3, <2>4
<1>7. \A b \in branches : part[b] = {g \in DOMAIN all : /\ g[1] = b
                                                         /\ Threshold > 0 /\ all[g] >= Threshold
                                                         /\ Plain2(g)}
  BY <1>6
<1>8. DOMAIN tagged = branches /\ \A b \in branches : tagged[b] = Cardinality(part[b])
  BY <1>5, <1>7
<1>9. \A b \in branches : IsFiniteSet(part[b])
  BY <1>3, FS_Subset
<1>10. IsFiniteSet(labels)
  <2> DEFINE domain == [e \in seen |-> e.domain]
             domains == {domain[e] : e \in seen}
  <2>1. labels \subseteq domains
    BY DEF seen
  <2> HIDE DEF domain
  <2>2. IsFiniteSet(domains)
    BY <1>2, ImageFinite
  <2> QED BY <2>1, <2>2, FS_Subset
<1>11. ASSUME NEW b \in branches PROVE tagged[b] <= Cardinality(labels)
  <2> DEFINE name == [g \in part[b] |-> g[2]]
  <2>1. \A g \in part[b] : \E e \in seen : /\ g = <<b, e.domain>> /\ g[2] = e.domain
                                           /\ Category[e.domain] = "uncategorized"
    BY <1>3, <1>11
  <2>2. \A g \in part[b] : g[2] \in labels /\ g = <<b, g[2]>>
    BY <2>1 DEF seen
  <2> HIDE DEF part
  <2>3. name \in Injection(part[b], labels)
    BY <2>2 DEF Injection, IsInjective
  <2> HIDE DEF name
  <2>4. Cardinality(part[b]) <= Cardinality(labels)
    BY <1>10, <2>3, FS_Injection
  <2> QED BY <1>8, <2>4
<1>12. Total(tagged) >= Cardinality(labels)
  <2> DEFINE over == UNION {part[b] : b \in branches}
             name == [g \in over |-> g[2]]
  <2>1. \A g \in over : \E e \in seen : /\ g[2] = e.domain /\ Category[e.domain] = "uncategorized"
    BY <1>3
  <2>2. \A g \in over : g[2] \in labels
    BY <2>1 DEF seen
  <2>3. ASSUME NEW d \in labels PROVE \E g \in over : g[2] = d
    <3>1. PICK e \in seen : e.domain = d /\ Category[d] = "uncategorized"
      BY DEF seen
    <3>2. <<e.branch, d>> \in DOMAIN all /\ e.branch \in branches
      BY <1>3, <1>4, <3>1
    <3>3. <<e.branch, d>> \in part[e.branch]
      BY <3>1, <3>2
    <3> QED BY <3>2, <3>3
  <2>4. /\ IsFiniteSet(over) /\ Cardinality(over) <= SumOf(tagged, branches)
    <3> HIDE DEF part
    <3> QED BY <1>4, <1>8, <1>9, SumCovers
  <2> HIDE DEF over
  <2>5. name \in Surjection(over, labels)
    BY <2>2, <2>3 DEF Surjection
  <2> HIDE DEF name
  <2>6. Cardinality(labels) <= Cardinality(over)
    BY <2>4, <2>5, FS_Surjection
  <2>7. Total(tagged) = SumOf(tagged, branches)
    BY <1>4, <1>8, TotalIs
  <2>8. SumOf(tagged, branches) \in Nat
    <3>1. \A b \in branches : tagged[b] \in Nat
      BY <1>8, <1>9, FS_CardinalityType
    <3> QED BY <1>4, <3>1, SumNat
  <2>9. Cardinality(labels) \in Nat /\ Cardinality(over) \in Nat
    BY <1>10, <2>4, FS_CardinalityType
  <2> QED BY <2>4, <2>6, <2>7, <2>8, <2>9
<1> QED BY <1>11, <1>12 DEF branches
\* The rows of the branches, of a range and of the one before it.
LEMMA BreakdownSums ==
  ASSUME BaseInv, DataInv, NEW ask \in Asked, ask.since >= clock - Aggregates, NEW rows,
         rows = BranchBreakdown(tables, ask.since, ask.until, ask.scope),
         NEW branches, branches = BranchesInScope(ask.scope)
  PROVE  /\ Sum(rows, branches, "requests") = Tally(SeenBy(ask))["requests"]
         /\ Sum(rows, branches, "blocked") = Tally(SeenBy(ask))["blocked"]
         /\ Before(ask.since, ask.until) >= clock - Aggregates =>
              Sum(rows, branches, "previous") =
                Tally(CountedByMinute(Before(ask.since, ask.until), ask.since, ask.scope))["requests"]
<1> DEFINE Part(since, until, f, b) == At(BranchTotals(tables, since, until, ask.scope, f), b)
<1>1. ask.since \in Int /\ ask.until \in Int /\ Before(ask.since, ask.until) \in Int
  BY AskedTimes DEF Before
<1>2. "requests" \in Figures /\ "blocked" \in Figures
  BY DEF Figures
<1>3. \A b \in branches :
        /\ rows[b]["requests"] = Part(ask.since, ask.until, "requests", b)
        /\ rows[b]["blocked"] = Part(ask.since, ask.until, "blocked", b)
        /\ rows[b]["previous"] = Part(Before(ask.since, ask.until), ask.since, "requests", b)
  BY DEF BranchBreakdown
<1> HIDE DEF Part
<1>4. ASSUME NEW since \in Int, NEW until \in Int, since >= clock - Aggregates,
             NEW f \in Figures, NEW c, \A b \in branches : rows[b][c] = Part(since, until, f, b)
      PROVE  Sum(rows, branches, c) = Tally(CountedByMinute(since, until, ask.scope))[f]
  <2> DEFINE seen == CountedByMinute(since, until, ask.scope)
  <2>1. IsFiniteSet(seen)
    BY CountedFinite
  <2>2. IsFiniteSet(branches) /\ \A e \in seen : e.branch \in branches
    <3>1. \A e \in seen : e \in logged /\ BranchMatches(e.branch, ask.scope)
      BY DEF CountedByMinute
    <3> QED BY <3>1, BranchesFinite
  <2>3. \A b : Part(since, until, f, b) = Tally(OfBranch(seen, b))[f]
    BY <1>4, BranchAt DEF Part
  <2> HIDE DEF seen
  <2>4. \A b \in branches : rows[b][c] = Tally(OfBranch(seen, b))[f]
    BY <1>4, <2>3
  <2>5. Sum(rows, branches, c) = Tally(seen)[f]
    BY <2>1, <2>2, <2>4, BranchesSum
  <2> QED BY <2>5 DEF seen
<1>5. Sum(rows, branches, "requests") = Tally(SeenBy(ask))["requests"]
  BY <1>1, <1>2, <1>3, <1>4 DEF SeenBy
<1>6. Sum(rows, branches, "blocked") = Tally(SeenBy(ask))["blocked"]
  BY <1>1, <1>2, <1>3, <1>4 DEF SeenBy
<1>7. ASSUME Before(ask.since, ask.until) >= clock - Aggregates
      PROVE  Sum(rows, branches, "previous") =
               Tally(CountedByMinute(Before(ask.since, ask.until), ask.since, ask.scope))["requests"]
  BY <1>1, <1>2, <1>3, <1>4, <1>7
<1> QED BY <1>5, <1>6, <1>7

\* The branches, the overview and the range before.
LEMMA BranchesTruth ==
  ASSUME BaseInv, DataInv, NEW ask \in Asked, ask.since >= clock - Aggregates
  PROVE  BranchesAgree(ask)
<1> DEFINE since    == ask.since
           until    == ask.until
           scope    == ask.scope
           before   == Before(since, until)
           branches == BranchesInScope(scope)
           rows     == BranchBreakdown(tables, since, until, scope)
           whole    == Overview(tables, since, until, scope)
           tagged   == Uncategorized(tables, since, until, scope)
           seen     == SeenBy(ask)
           earlier  == CountedByMinute(before, since, scope)
           labels   == {d \in {e.domain : e \in Named(seen)} : Category[d] = "uncategorized"}
           Of(events, c) == Cardinality(OfCategory(Named(events), c))
           now      == Categories(tables, since, until, scope, "requests")
           then     == Categories(tables, before, since, scope, "requests")
<1>1. since \in Int /\ until \in Int /\ before \in Int
  BY AskedTimes DEF Before
<1>2. "requests" \in Figures /\ "blocked" \in Figures
  BY DEF Figures
<1>3. /\ whole.current.totals = Summary(tables, since, until, scope)
      /\ whole.current.clients = Cardinality(ActiveClients(tables, since, until, scope))
      /\ whole.previous.totals = Summary(tables, before, since, scope)
      /\ DOMAIN whole.movers = DOMAIN now \cup DOMAIN then
      /\ \A c \in DOMAIN whole.movers :
           whole.movers[c] = <<IF c \in DOMAIN now THEN now[c] ELSE 0,
                               IF c \in DOMAIN then THEN then[c] ELSE 0>>
  BY DEF Overview, Period
<1>4. Summary(tables, since, until, scope) = Tally(seen)
  BY <1>1, TrafficTruth DEF SeenBy
<1>5. IsFiniteSet(seen) /\ IsFiniteSet(earlier)
  BY CountedFinite DEF SeenBy
<1>6. /\ Sum(rows, branches, "requests") = Tally(seen)["requests"]
      /\ Sum(rows, branches, "blocked") = Tally(seen)["blocked"]
      /\ before >= clock - Aggregates => Sum(rows, branches, "previous") = Tally(earlier)["requests"]
  BY BreakdownSums
<1>7. Sum(rows, branches, "clients") >= whole.current.clients
  BY <1>3, BranchClients
<1>8. /\ Total(BranchCategories(tables, since, until, scope)) = Cardinality(Named(seen))
      /\ DomainsCount(BranchDomains(tables, since, until, scope, "blocked"), Named(seen), "blocked")
  BY <1>1, <1>2, BranchDomainsCount DEF SeenBy
<1>9. Total(BranchBlockedDomains(tables, since, until, scope)) = Tally(Named(seen))["blocked"]
  <2> DEFINE all == BranchDomains(tables, since, until, scope, "blocked")
             some == BranchBlockedDomains(tables, since, until, scope)
  <2>1. some = [g \in {h \in DOMAIN all : all[h] > 0} |-> all[g]]
    BY DEF BranchBlockedDomains
  <2>2. /\ IsFiniteSet(DOMAIN all) /\ \A g \in DOMAIN all : all[g] \in Nat
        /\ Total(all) = Tally(Named(seen))["blocked"]
    BY <1>8 DEF DomainsCount
  <2> HIDE DEF all, some
  <2>3. Total(some) = Total(all)
    BY <2>1, <2>2, TotalPositive
  <2> QED BY <2>2, <2>3 DEF some
<1>10. Threshold = 1 => /\ Total(tagged) >= Cardinality(labels)
                        /\ \A b \in branches : tagged[b] <= Cardinality(labels)
  BY TaggedDomains
<1>11. ASSUME before >= clock - Aggregates
       PROVE  /\ whole.previous.totals = Tally(earlier)
              /\ Sum(rows, branches, "previous") = Cardinality(earlier)
              /\ \A c \in DOMAIN whole.movers : whole.movers[c] = <<Of(seen, c), Of(earlier, c)>>
  <2>1. Summary(tables, before, since, scope) = Tally(earlier)
    BY <1>1, <1>11, TrafficTruth
  <2>2. Tally(earlier)["requests"] = Cardinality(earlier)
    BY <1>2, <1>5, TallyType
  <2>3. \A c : /\ (IF c \in DOMAIN now THEN now[c] ELSE 0) = Of(seen, c)
               /\ (IF c \in DOMAIN then THEN then[c] ELSE 0) = Of(earlier, c)
    BY <1>1, <1>11, CategoryAt DEF SeenBy
  <2> HIDE DEF now, then, seen, earlier, whole, rows, branches, Of
  <2> QED BY <1>3, <1>6, <1>11, <2>1, <2>2, <2>3
<1> HIDE DEF seen, earlier, whole, rows, branches, tagged, labels, before
<1>12. /\ Sum(rows, branches, "requests") = whole.current.totals.requests
       /\ Sum(rows, branches, "blocked") = whole.current.totals.blocked
  BY <1>3, <1>4, <1>6
<1> QED BY <1>7, <1>8, <1>9, <1>10, <1>11, <1>12
        DEF BranchesAgree, OfCategory, seen, earlier, whole, rows, branches, tagged, labels, before
-----------------------------------------------------------------------------
(* Actors.                                                                  *)

\* The rows of clients show events, whichever of the two tables they are in.
LEMMA ClientsShow ==
  ASSUME BaseInv, DataInv, NEW since \in Int, NEW until \in Int, NEW scope
  PROVE  \E mine, key : Shows(ClientRows(tables, since, until, scope),
                              DOMAIN ClientRows(tables, since, until, scope), mine, key)
<1> DEFINE rows == ClientRows(tables, since, until, scope)
<1>1. PICK kept, summed, seen \in SUBSET Flushed : RolledUpTo(kept, summed, seen)
  BY DEF DataInv, ClientsInv
<1> DEFINE mine == ClientEvents(kept, summed, since, until, scope)
           key == [e \in mine |-> ClientRow(kept, e)]
<1>2. AreRowsOf(rows, kept, mine)
  BY <1>1, ClientRowsAre DEF RolledUpTo
<1> HIDE DEF rows, mine
<1>3. Shows(rows, DOMAIN rows, mine, key)
  <2>1. \A r : With(mine, key, r) = {e \in mine : ClientRow(kept, e) = r}
    BY DEF With
  <2>2. DOMAIN rows = {key[e] : e \in mine}
    BY <1>2 DEF AreRowsOf
  <2> QED BY <1>2, <2>1, <2>2 DEF AreRowsOf, Shows
<1> QED BY <1>3 DEF rows

\* Grouping some of the rows loses none of them, and two parts make one.
LEMMA ShowsParts ==
  ASSUME NEW rows, NEW keys, NEW events, NEW key, Shows(rows, keys, events, key), NEW f \in Figures
  PROVE  /\ \A some \in SUBSET keys : Sum(rows, some, f) \in Nat
         /\ \A some \in SUBSET keys : \A of, groups :
              Grouped(groups, rows, some, of, f) => Total(groups) = Sum(rows, some, f)
         /\ \A some, other \in SUBSET keys :
              some \cap other = {} =>
                Sum(rows, some \cup other, f) = Sum(rows, some, f) + Sum(rows, other, f)
<1> DEFINE h == [k \in keys |-> rows[k][f]]
<1>1. IsFiniteSet(keys) /\ \A k \in keys : rows[k][f] \in Nat
  BY ShowsSum
<1>2. \A k \in keys : h[k] = rows[k][f] /\ h[k] \in Nat
  BY <1>1
<1> HIDE DEF h
<1>3. ASSUME NEW some \in SUBSET keys
      PROVE  /\ IsFiniteSet(some) /\ Sum(rows, some, f) = SumOf(h, some)
             /\ Sum(rows, some, f) \in Nat
  <2>1. IsFiniteSet(some) /\ \A k \in some : h[k] = rows[k][f] /\ h[k] \in Nat
    BY <1>1, <1>2, FS_Subset
  <2> QED BY <2>1, SumIs, SumNat
<1>4. ASSUME NEW some \in SUBSET keys, NEW of, NEW groups, Grouped(groups, rows, some, of, f)
      PROVE  Total(groups) = Sum(rows, some, f)
  <2>1. IsFiniteSet(some) /\ \A k \in some : rows[k][f] \in Nat
    BY <1>1, <1>3
  <2>2. /\ DOMAIN groups = {of[k] : k \in some}
        /\ \A g \in DOMAIN groups : groups[g] = Sum(rows, With(some, of, g), f)
    BY <1>4 DEF Grouped
  <2> QED BY <2>1, <2>2, GroupTotal
<1>5. ASSUME NEW some \in SUBSET keys, NEW other \in SUBSET keys, some \cap other = {}
      PROVE  Sum(rows, some \cup other, f) = Sum(rows, some, f) + Sum(rows, other, f)
  <2>1. SumOf(h, some \cup other) = SumOf(h, some) + SumOf(h, other)
    <3>1. IsFiniteSet(some) /\ IsFiniteSet(other) /\ \A k \in some \cup other : h[k] \in Nat
      BY <1>2, <1>3
    <3> QED BY <1>5, <3>1, SumUnion
  <2>2. some \cup other \in SUBSET keys
    OBVIOUS
  <2> QED BY <1>3, <2>1, <2>2
<1> QED BY <1>3, <1>4, <1>5

\* Whoever is listed has all of his rows behind his number.
LEMMA ActorRowsAre ==
  ASSUME NEW rows, NEW r0 \in DOMAIN rows, Kept(rows, r0)
  PROVE  {r \in {q \in DOMAIN rows : Kept(rows, q)} : Actor(r) = Actor(r0)} =
           {r \in DOMAIN rows : IsActor(Actor(r0), r.row.user, r.row.client)}
<1>1. CASE r0.row.user # None
  <2>1. Actor(r0) = <<"user", r0.row.user>>
    BY <1>1 DEF Actor
  <2>2. \A r \in DOMAIN rows :
          Kept(rows, r) /\ Actor(r) = Actor(r0) <=> r.row.user = r0.row.user
    BY <1>1, <2>1 DEF Actor, Kept
  <2>3. \A r \in DOMAIN rows :
          IsActor(Actor(r0), r.row.user, r.row.client) <=> r.row.user = r0.row.user
    BY <2>1 DEF IsActor
  <2> QED BY <2>2, <2>3
<1>2. CASE r0.row.user = None
  <2>1. Actor(r0) = <<"ip", r0.row.client>> /\ r0.row.client \notin LoggedIn(rows)
    BY <1>2 DEF Actor, Kept
  <2>2. \A r \in DOMAIN rows : r.row.client = r0.row.client => r.row.user = None
    BY <2>1 DEF LoggedIn
  <2>3. \A r \in DOMAIN rows :
          Kept(rows, r) /\ Actor(r) = Actor(r0) <=> r.row.client = r0.row.client
    BY <2>1, <2>2 DEF Actor, Kept
  <2>4. \A r \in DOMAIN rows :
          IsActor(Actor(r0), r.row.user, r.row.client) <=> r.row.client = r0.row.client
    BY <2>1 DEF IsActor
  <2> QED BY <2>3, <2>4
<1> QED BY <1>1, <1>2

\* The list of actors, by their kinds, and the leaderboard.
LEMMA ActorsListed ==
  ASSUME BaseInv, DataInv, NEW since \in Int, NEW until \in Int, NEW scope
  PROVE  LET Listed(kind) == Actors(tables, since, until, scope, kind, FALSE) IN
         /\ Total(Listed("all")) = Total(Listed("user")) + Total(Listed("ip"))
         /\ Listed("all") = Leaderboard(tables, since, until, scope).actors
<1> DEFINE rows == ClientRows(tables, since, until, scope)
           Rows(kind) == {r \in DOMAIN rows : Kept(rows, r) /\ OfKind(Actor(r), kind)}
           Listed(kind) == Actors(tables, since, until, scope, kind, FALSE)
           actor == [r \in DOMAIN rows |-> Actor(r)]
<1>1. PICK mine, key : Shows(rows, DOMAIN rows, mine, key)
  BY ClientsShow
<1>2. "requests" \in Figures
  BY DEF Figures
<1>3. ASSUME NEW kind
      PROVE  Listed(kind) = [a \in {actor[r] : r \in Rows(kind)} |->
                               Sum(rows, {r \in Rows(kind) : actor[r] = a}, "requests")]
  BY DEF Actors, GroupBy
<1>4. \A r \in DOMAIN rows : OfKind(Actor(r), "all") /\
        (OfKind(Actor(r), "user") <=> ~OfKind(Actor(r), "ip"))
  BY DEF OfKind, Actor
<1>5. /\ Rows("user") \cap Rows("ip") = {} /\ Rows("user") \cup Rows("ip") = Rows("all")
      /\ Rows("all") = {r \in DOMAIN rows : Kept(rows, r)}
      /\ \A kind : Rows(kind) \in SUBSET DOMAIN rows
  BY <1>4
<1>6. Listed("all") = Leaderboard(tables, since, until, scope).actors
  <2>1. Leaderboard(tables, since, until, scope).actors =
          [a \in {actor[r] : r \in {q \in DOMAIN rows : Kept(rows, q)}} |->
             Sum(rows, {r \in {q \in DOMAIN rows : Kept(rows, q)} : actor[r] = a}, "requests")]
    BY DEF Leaderboard, GroupBy
  <2> HIDE DEF Listed, rows, actor
  <2> QED BY <1>3, <1>5, <2>1
<1> HIDE DEF rows, Rows, Listed, actor
<1>7. \A kind : Grouped(Listed(kind), rows, Rows(kind), actor, "requests")
  BY <1>3 DEF Grouped, With
<1>8. \A kind : Total(Listed(kind)) = Sum(rows, Rows(kind), "requests")
  BY <1>1, <1>2, <1>5, <1>7, ShowsParts
<1>9. Sum(rows, Rows("user") \cup Rows("ip"), "requests") =
        Sum(rows, Rows("user"), "requests") + Sum(rows, Rows("ip"), "requests")
  BY <1>1, <1>2, <1>5, ShowsParts
<1>10. Total(Listed("all")) = Total(Listed("user")) + Total(Listed("ip"))
  <2>1. /\ Total(Listed("all")) = Sum(rows, Rows("all"), "requests")
        /\ Total(Listed("user")) = Sum(rows, Rows("user"), "requests")
        /\ Total(Listed("ip")) = Sum(rows, Rows("ip"), "requests")
    BY <1>8
  <2>2. Rows("user") \cup Rows("ip") = Rows("all")
    BY <1>5
  <2> QED BY <1>9, <2>1, <2>2
<1> QED BY <1>6, <1>10 DEF Listed
\* What an actor's page says of his rows.
RowsTold(actor, detail, listed, blockers) ==
  /\ detail.requests = listed[actor]
  /\ Total(detail.hourly) = detail.requests
  /\ detail.blocked > 0 <=> actor \in DOMAIN blockers

LEMMA ActorRowsTold ==
  ASSUME BaseInv, DataInv, NEW since \in Int, NEW until \in Int, NEW scope,
         NEW actor \in DOMAIN Actors(tables, since, until, scope, "all", FALSE), NEW detail,
         detail = ActorDetail(tables, raw, actor, since, until, scope)
  PROVE  RowsTold(actor, detail, Actors(tables, since, until, scope, "all", FALSE),
                  Actors(tables, since, until, scope, "all", TRUE))
<1> DEFINE rows == ClientRows(tables, since, until, scope)
           kept == {r \in DOMAIN rows : Kept(rows, r)}
           mine == ActorRows(tables, actor, since, until, scope)
           listed == Actors(tables, since, until, scope, "all", FALSE)
           blockers == Actors(tables, since, until, scope, "all", TRUE)
<1>1. PICK events, key : Shows(rows, DOMAIN rows, events, key)
  BY ClientsShow
<1>2. "requests" \in Figures /\ "blocked" \in Figures
  BY DEF Figures
<1>3. {r \in DOMAIN rows : Kept(rows, r) /\ OfKind(Actor(r), "all")} = kept
  BY DEF OfKind
<1>4. /\ DOMAIN listed = {Actor(r) : r \in kept}
      /\ \A a \in DOMAIN listed : listed[a] = Sum(rows, {r \in kept : Actor(r) = a}, "requests")
      /\ DOMAIN blockers = {a \in {Actor(r) : r \in kept} :
                              Sum(rows, {r \in kept : Actor(r) = a}, "blocked") > 0}
  BY <1>3 DEF Actors, GroupBy
<1>5. mine = {r \in DOMAIN rows : IsActor(actor, r.row.user, r.row.client)}
  BY DEF ActorRows
<1>6. PICK r0 \in kept : actor = Actor(r0)
  BY <1>4
<1>7. {r \in kept : Actor(r) = actor} = mine
  BY <1>5, <1>6, ActorRowsAre
<1>8. /\ detail.requests = Sum(rows, mine, "requests")
      /\ detail.blocked = Sum(rows, mine, "blocked")
      /\ detail.hourly = GroupBy(rows, mine, LAMBDA r : FloorHour(r.row.at % Day), "requests")
  BY DEF ActorDetail
<1>9. Total(detail.hourly) = Sum(rows, mine, "requests")
  <2> DEFINE of == [r \in mine |-> FloorHour(r.row.at % Day)]
             groups == detail.hourly
  <2> HIDE DEF mine, rows
  <2>0. \A r \in mine : of[r] = FloorHour(r.row.at % Day)
    OBVIOUS
  <2> HIDE DEF of
  <2>1. Grouped(groups, rows, mine, of, "requests")
    <3>1. groups = [g \in {FloorHour(r.row.at % Day) : r \in mine} |->
                      Sum(rows, {r \in mine : FloorHour(r.row.at % Day) = g}, "requests")]
      BY <1>8 DEF GroupBy
    <3>2. {of[r] : r \in mine} = {FloorHour(r.row.at % Day) : r \in mine}
      BY <2>0
    <3>3. \A g : With(mine, of, g) = {r \in mine : FloorHour(r.row.at % Day) = g}
      BY <2>0 DEF With
    <3> HIDE DEF groups
    <3> QED BY <3>1, <3>2, <3>3 DEF Grouped
  <2>2. mine \in SUBSET DOMAIN rows
    BY <1>5
  <2> HIDE DEF groups
  <2>3. Total(groups) = Sum(rows, mine, "requests")
    BY <1>1, <1>2, <2>1, <2>2, ShowsParts
  <2> QED BY <2>3 DEF groups
<1> HIDE DEF rows, kept, mine, listed, blockers
<1>10. detail.requests = listed[actor]
  BY <1>4, <1>7, <1>8 DEF listed
<1>11. detail.blocked > 0 <=> actor \in DOMAIN blockers
  BY <1>4, <1>6, <1>7, <1>8
<1>12. RowsTold(actor, detail, listed, blockers)
  BY <1>8, <1>9, <1>10, <1>11 DEF RowsTold
<1> QED BY <1>12 DEF listed, blockers
\* The key columns of the categories by login.
LEMMA UserColumns == Columns["usercat"] = {"user", "category"} /\ "usercat" \in Plain
<1>1. /\ DOMAIN MinuteColumns = {"minute", "band"} /\ DOMAIN BlockedColumns = {"blockedDomain", "blockedClient"}
      /\ DOMAIN OpsColumns = {"code", "http", "hierarchy", "usercat"}
      /\ OpsColumns["usercat"] = {"user", "category"}
  BY DEF MinuteColumns, OpsColumns, BlockedColumns
<1>2. "usercat" \in Tabled /\ DOMAIN Columns = Tabled
  BY ColumnsOf DEF Tabled
<1>3. Columns["usercat"] = OpsColumns["usercat"]
  <2>1. "usercat" \notin DOMAIN MinuteColumns /\ "usercat" \in DOMAIN OpsColumns
    BY <1>1
  <2>2. \A t \in DOMAIN Columns :
          Columns[t] = CASE t \in DOMAIN MinuteColumns  -> MinuteColumns[t]
                         [] t \in DOMAIN OpsColumns     -> OpsColumns[t]
                         [] t \in DOMAIN BlockedColumns -> BlockedColumns[t]
                         [] t \in DOMAIN TrafficColumns -> TrafficColumns[t]
    BY Zenon DEF Columns
  <2>3. Columns["usercat"] =
          CASE "usercat" \in DOMAIN MinuteColumns  -> MinuteColumns["usercat"]
            [] "usercat" \in DOMAIN OpsColumns     -> OpsColumns["usercat"]
            [] "usercat" \in DOMAIN BlockedColumns -> BlockedColumns["usercat"]
            [] "usercat" \in DOMAIN TrafficColumns -> TrafficColumns["usercat"]
    BY <1>2, <2>2
  <2>4. "usercat" \notin DOMAIN BlockedColumns /\ "usercat" \notin DOMAIN TrafficColumns
    BY <1>1 DEF TrafficColumns
  <2> QED BY <2>1, <2>3, <2>4
<1> QED BY <1>1, <1>2, <1>3 DEF Plain

\* The requests of an actor.
ActorEvents(events, actor) == {e \in events : IsActor(actor, e.user, e.client)}

\* What an actor's page says of categories.
LEMMA ActorCategories ==
  ASSUME BaseInv, DataInv, NEW since \in Int, NEW until \in Int, NEW scope, NEW actor,
         since >= clock - Aggregates, since >= clock - Ops
  PROVE  Total(ActorDetail(tables, raw, actor, since, until, scope).categories) =
           Cardinality(ActorEvents(Named(CountedByMinute(since, until, scope)), actor))
<1> DEFINE seen == Named(CountedByMinute(since, until, scope))
           groups == ActorDetail(tables, raw, actor, since, until, scope).categories
<1>1. "requests" \in Figures
  BY DEF Figures
<1>2. IsFiniteSet(seen) /\ seen \subseteq logged
  <2>1. IsFiniteSet(seen)
    BY CountedFinite
  <2> QED BY <2>1 DEF CountedByMinute, Named
\* The rows under a name show the requests under it.
<1>3. ASSUME NEW t, NEW column, NEW keys, NEW key, Shows(tables[t], keys, seen, key),
             \A e \in seen : key[e][column] = e[column],
             \A e \in seen : IsActor(actor, e.user, e.client) <=> e[column] = actor[2],
             groups = GroupBy(tables[t], {k \in keys : k[column] = actor[2]},
                              LAMBDA k : k.category, "requests")
      PROVE  Total(groups) = Cardinality(ActorEvents(seen, actor))
  <2> DEFINE some == {k \in keys : k[column] = actor[2]}
             of == [k \in some |-> k.category]
             mine == WithAny(seen, key, some)
  <2>1. some \in SUBSET keys
    OBVIOUS
  <2>2. mine = ActorEvents(seen, actor)
    <3>1. \A e \in seen : key[e] \in keys
      BY <1>3 DEF Shows
    <3> HIDE DEF seen
    <3>2. \A e \in seen : key[e] \in some <=> IsActor(actor, e.user, e.client)
      BY <1>3, <3>1
    <3> HIDE DEF some
    <3> QED BY <3>2 DEF WithAny, ActorEvents
  <2>3. groups = [g \in {of[k] : k \in some} |-> Sum(tables[t], {k \in some : of[k] = g}, "requests")]
    <3> HIDE DEF groups
    <3> QED BY <1>3 DEF GroupBy
  <2> HIDE DEF seen, some, of, groups
  <2>4. Grouped(groups, tables[t], some, of, "requests")
    BY <2>3 DEF Grouped, With
  <2>5. Total(groups) = Sum(tables[t], some, "requests")
    BY <1>1, <1>3, <2>1, <2>4, ShowsParts
  <2>6. Shows(tables[t], some, mine, key)
    BY <1>3, <2>1, ShowsSome
  <2> HIDE DEF mine
  <2>7. Sum(tables[t], some, "requests") = Tally(mine)["requests"] /\ IsFiniteSet(mine)
    BY <1>1, <2>6, ShowsSum
  <2>8. Tally(mine)["requests"] = Cardinality(mine)
    BY <1>1, <2>7, TallyType
  <2> QED BY <2>2, <2>5, <2>7, <2>8
<1>4. CASE actor[1] = "user"
  <2> DEFINE keys == InRange(tables["usercat"], since, until, scope)
             key == [e \in logged |-> Key("usercat", e)]
  <2>1. Shows(tables["usercat"], keys, seen, key)
    <3>1. /\ "usercat" \in Plain /\ "usercat" \notin BlockedTables
          /\ KeptSince("usercat") = clock - Ops
      BY UserColumns, ColumnsOf DEF KeptSince
    <3>2. clock - Ops \in Int
      BY RetentionAssumption DEF BaseInv
    <3>3. {e \in CountedByMinute(since, until, scope) : CountedIn("usercat", e)} = seen
      BY <3>1 DEF CountedIn, Named
    <3>4. Shows(tables["usercat"], keys,
                {e \in CountedByMinute(since, until, scope) : CountedIn("usercat", e)}, key)
      BY <3>1, <3>2, MinutesShow
    <3> HIDE DEF seen, keys, key
    <3> QED BY <3>3, <3>4
  <2>2. \A e \in seen : key[e]["user"] = e["user"]
    <3>1. "user" \in Columns["usercat"] /\ "user" # "at"
      BY UserColumns
    <3>2. \A e : Key("usercat", e)["user"] = Column("user", e)
      BY <3>1, KeyFacts
    <3> QED BY <1>2, <3>2 DEF Column
  <2>3. \A e \in seen : IsActor(actor, e.user, e.client) <=> e["user"] = actor[2]
    BY <1>4 DEF IsActor
  <2>4. groups = GroupBy(tables["usercat"], {k \in keys : k["user"] = actor[2]},
                         LAMBDA k : k.category, "requests")
    BY <1>4 DEF ActorDetail
  <2> HIDE DEF seen, keys, key, groups
  <2> QED BY <1>3, <2>1, <2>2, <2>3, <2>4 DEF seen, groups
<1>5. CASE actor[1] # "user"
  <2> DEFINE keys == InRange(tables["category"], since, until, scope)
             key == [e \in logged |-> Key("category", e)]
  <2>1. Shows(tables["category"], keys, seen, key)
    BY TrafficShows
  <2>2. \A e \in seen : key[e]["client"] = e["client"]
    <3>1. "client" \in Columns["category"] /\ "client" # "at"
      BY ColumnsOf
    <3>2. \A e : Key("category", e)["client"] = Column("client", e)
      BY <3>1, KeyFacts
    <3> QED BY <1>2, <3>2 DEF Column
  <2>3. \A e \in seen : IsActor(actor, e.user, e.client) <=> e["client"] = actor[2]
    BY <1>5 DEF IsActor
  <2>4. groups = GroupBy(tables["category"], {k \in keys : k["client"] = actor[2]},
                         LAMBDA k : k.category, "requests")
    BY <1>5 DEF ActorDetail
  <2> HIDE DEF seen, keys, key, groups
  <2> QED BY <1>3, <2>1, <2>2, <2>3, <2>4 DEF seen, groups
<1> QED BY <1>4, <1>5
\* What an actor's page says of single requests, while they are there.
LEMMA ActorRequests ==
  ASSUME BaseInv, DataInv, NEW since, NEW until, NEW scope, NEW actor,
         Counted(since, until, scope) \subseteq raw, NEW blocked \in BOOLEAN
  PROVE  Total(ActorDomains(raw, actor, since, until, scope, blocked)) =
           Cardinality({e \in ActorEvents(Named(Counted(since, until, scope)), actor) :
                          blocked => Blocked(e)})
<1> DEFINE mine == {e \in raw : /\ IsActor(actor, e.user, e.client)
                                /\ since <= e.at /\ e.at <= until /\ BranchMatches(e.branch, scope)
                                /\ e.domain # None /\ (blocked => Blocked(e))}
           domain == [e \in mine |-> e.domain]
           groups == ActorDomains(raw, actor, since, until, scope, blocked)
<1>1. raw \subseteq logged \ pending /\ IsFiniteSet(logged)
  BY DEF DataInv, StoredInv, Flushed
<1>2. mine = {e \in ActorEvents(Named(Counted(since, until, scope)), actor) : blocked => Blocked(e)}
  BY <1>1 DEF ActorEvents, Named, Counted
<1>3. /\ DOMAIN groups = {e.domain : e \in mine}
      /\ \A d \in DOMAIN groups : groups[d] = Cardinality({e \in mine : e.domain = d})
  BY DEF ActorDomains
<1>4. IsFiniteSet(mine)
  <2>1. mine \subseteq logged
    BY <1>1
  <2> QED BY <1>1, <2>1, FS_Subset
<1> HIDE DEF mine, groups
<1>5. DOMAIN groups = {domain[e] : e \in mine}
  BY <1>3
<1>6. \A d : With(mine, domain, d) = {e \in mine : e.domain = d}
  BY DEF With
<1>7. WithAny(mine, domain, DOMAIN groups) = mine
  BY <1>5 DEF WithAny
<1> HIDE DEF domain
<1>8. IsFiniteSet(DOMAIN groups)
  BY <1>4, <1>5, ImageFinite
<1>9. \A d \in DOMAIN groups : groups[d] = Cardinality(With(mine, domain, d))
  BY <1>3, <1>6
<1>10. SumOf(groups, DOMAIN groups) = Cardinality(WithAny(mine, domain, DOMAIN groups))
  BY <1>4, <1>8, <1>9, SumFibres
<1>11. Total(groups) = SumOf(groups, DOMAIN groups)
  BY <1>8, TotalIs
<1> QED BY <1>2, <1>7, <1>10, <1>11 DEF groups

\* The actors, the leaderboard and the page of one.
LEMMA ActorsTruth ==
  ASSUME BaseInv, DataInv, NEW ask \in Asked, ask.since >= clock - Aggregates
  PROVE  ActorsAgree(ask)
<1> DEFINE since == ask.since
           until == ask.until
           scope == ask.scope
           seen == SeenBy(ask)
           read == ReadBy(ask)
           Listed(kind) == Actors(tables, since, until, scope, kind, FALSE)
           Of(actor, events) == {e \in events : IsActor(actor, e.user, e.client)}
<1>1. since \in Int /\ until \in Int
  BY AskedTimes
<1>2. /\ Total(Listed("all")) = Total(Listed("user")) + Total(Listed("ip"))
      /\ Listed("all") = Leaderboard(tables, since, until, scope).actors
  BY <1>1, ActorsListed
<1>3. \A actor, events : ActorEvents(Named(events), actor) = Named(Of(actor, events))
  BY DEF ActorEvents, Named
<1>4. ASSUME NEW actor \in DOMAIN Listed("all"), NEW detail,
             detail = ActorDetail(tables, raw, actor, since, until, scope)
      PROVE  /\ detail.requests = Listed("all")[actor]
             /\ Total(detail.hourly) = detail.requests
             /\ detail.blocked > 0 <=> actor \in DOMAIN Actors(tables, since, until, scope, "all", TRUE)
             /\ since >= clock - Ops => Total(detail.categories) = Cardinality(Named(Of(actor, seen)))
             /\ read \subseteq raw => /\ Total(detail.domains) = Cardinality(Named(Of(actor, read)))
                                      /\ Total(detail.denied) = Tally(Named(Of(actor, read)))["blocked"]
  <2>1. /\ detail.requests = Listed("all")[actor]
        /\ Total(detail.hourly) = detail.requests
        /\ detail.blocked > 0 <=> actor \in DOMAIN Actors(tables, since, until, scope, "all", TRUE)
    <3>1. RowsTold(actor, detail, Listed("all"), Actors(tables, since, until, scope, "all", TRUE))
      BY <1>1, <1>4, ActorRowsTold
    <3> QED BY <3>1 DEF RowsTold
  <2> DEFINE mine == ActorEvents(Named(read), actor)
  <2>2. ASSUME since >= clock - Ops PROVE Total(detail.categories) = Cardinality(Named(Of(actor, seen)))
    <3>1. Total(detail.categories) = Cardinality(ActorEvents(Named(seen), actor))
      BY <1>1, <1>4, <2>2, ActorCategories DEF SeenBy
    <3> QED BY <1>3, <3>1
  <2>3. ASSUME read \subseteq raw, NEW blocked \in BOOLEAN
        PROVE  Total(ActorDomains(raw, actor, since, until, scope, blocked)) =
                 Cardinality({e \in mine : blocked => Blocked(e)})
    BY <2>3, ActorRequests DEF ReadBy
  <2>4. /\ detail.domains = ActorDomains(raw, actor, since, until, scope, FALSE)
        /\ detail.denied = ActorDomains(raw, actor, since, until, scope, TRUE)
    BY <1>4 DEF ActorDetail
  <2>5. /\ {e \in mine : FALSE => Blocked(e)} = mine
        /\ {e \in mine : TRUE => Blocked(e)} = {e \in mine : Blocked(e)}
        /\ Tally(mine)["blocked"] = Cardinality({e \in mine : Blocked(e)})
    <3> HIDE DEF mine
    <3>1. {e \in mine : Is("blocked", e)} = {e \in mine : Blocked(e)} /\ "blocked" \in Figures
      BY DEF Is, Figures
    <3>2. Tally(mine)["blocked"] = Cardinality({e \in mine : Is("blocked", e)})
      BY <3>1, TallyIs
    <3> QED BY <3>1, <3>2
  <2>6. mine = Named(Of(actor, read))
    BY <1>3
  <2> HIDE DEF mine, seen, read, Of, Listed
  <2>7. ASSUME read \subseteq raw
        PROVE  /\ Total(detail.domains) = Cardinality(mine)
               /\ Total(detail.denied) = Tally(mine)["blocked"]
    <3>1. Total(ActorDomains(raw, actor, since, until, scope, FALSE)) =
            Cardinality({e \in mine : FALSE => Blocked(e)})
      BY <2>3, <2>7
    <3>2. Total(ActorDomains(raw, actor, since, until, scope, TRUE)) =
            Cardinality({e \in mine : TRUE => Blocked(e)})
      BY <2>3, <2>7
    <3> QED BY <2>4, <2>5, <3>1, <3>2
  <2> QED BY <2>1, <2>2, <2>6, <2>7
<1> HIDE DEF seen, read, Of
<1> QED BY <1>2, <1>4 DEF ActorsAgree, seen, read, Of

\* The pages that split what the tables show.
LEMMA PagesTruth == BaseInv /\ DataInv => PagesAddUp
<1> SUFFICES ASSUME BaseInv, DataInv, NEW ask \in Asked
             PROVE  /\ ask.since >= clock - Aggregates =>
                         SeriesAgree(ask) /\ BranchesAgree(ask) /\ ActorsAgree(ask)
                    /\ ask.since >= clock - Ops => CodesAgree(ask)
  BY DEF PagesAddUp
<1>1. ask.since \in Int /\ ask.until \in Int
  BY AskedTimes
<1> QED BY <1>1, SeriesTruth, BranchesTruth, ActorsTruth, CodesPages

-----------------------------------------------------------------------------
(* The theorems.                                                           *)

LEMMA NextKept == KeptInv /\ [Next]_vars => KeptInv'
<1> SUFFICES ASSUME KeptInv, [Next]_vars PROVE KeptInv'
  OBVIOUS
<1>1. CASE Log
  BY <1>1, LogKept
<1>2. CASE Flush
  BY <1>2, FlushKept
<1>3. CASE Tick
  BY <1>3, TickKept
<1>4. CASE StartRetention
  BY <1>4, StartRetentionKept
<1>5. CASE Rollup
  BY <1>5, RollupKept
<1>6. CASE PurgeRaw
  BY <1>6, PurgeRawKept
<1>7. CASE PurgeTables
  BY <1>7, PurgeTablesKept
<1>8. CASE StartArchive(FALSE) \/ StartArchive(TRUE)
  BY <1>8, StartArchiveKept
<1>9. CASE WriteBranch
  BY <1>9, WriteBranchKept
<1>10. CASE CommitRun
  BY <1>10, CommitRunKept
<1>11. CASE EndArchive
  BY <1>11, EndArchiveKept
<1>12. CASE RetentionFails \/ ArchiveFails \/ Crash
  BY <1>12, BreakOffKept DEF RetentionFails, ArchiveFails, Crash
<1>13. CASE UNCHANGED vars
  <2>1. UNCHANGED <<clock, logged, pending, raw, retention, archivedUntil, archiving, files, past,
                    left>>
    BY <1>13 DEF vars, stored
  <2>2. BaseInv'
    BY <2>1 DEF KeptInv, BaseInv, RetentionOK, ArchivingOK, PastOK
  <2>3. Saved' = Saved /\ Purging' = Purging
    BY <2>1 DEF Saved, Purging, InFiles
  <2>4. PurgedInv'
    BY <2>1, <2>3 DEF KeptInv, PurgedInv, RawCutoff
  <2>5. PassedInv' /\ PurgedIsArchivedOrTold'
    BY <2>1, <2>3, SavedStays DEF KeptInv
  <2> QED BY <2>2, <2>4, <2>5 DEF KeptInv
<1> QED BY <1>1, <1>2, <1>3, <1>4, <1>5, <1>6, <1>7, <1>8, <1>9, <1>10, <1>11, <1>12, <1>13
        DEF Next

\* No request's detail is purged unseen: it is in an archive that is kept, or the
\* run that purged it named its branch, up to the exceptions the property names;
\* for any retention times, archive windows, branches and failures.
THEOREM NothingPurgedUnseen == Spec => []PurgedIsArchivedOrTold
<1>1. KeptInv => PurgedIsArchivedOrTold
  BY DEF KeptInv
<1> QED BY <1>1, InitKept, NextKept, PTL DEF Spec

\* Between the roll-up and the end of a run, a branch it does not warn of is
\* archived past everything the run purges, whatever the archive does meanwhile.
THEOREM UnnamedIsArchived ==
  Spec => [](retention.pc \in {"raw", "tables"} =>
               \A b \in Branches \ retention.branches : RawCutoff <= archivedUntil[b])
<1>1. KeptInv => (retention.pc \in {"raw", "tables"} =>
               \A b \in Branches \ retention.branches : RawCutoff <= archivedUntil[b])
  BY DEF KeptInv, PurgedInv
<1> QED BY <1>1, InitKept, NextKept, PTL DEF Spec

\* The tables hold counters of at most the events that were logged, a run what it
\* has read, and the archive events; whatever is logged, flushed, rolled up,
\* purged or archived, in any order and with any failures.
THEOREM TypeCorrect == Spec => []TypeOK
<1>1. Init => KeptInv /\ DataInv
  BY InitKept, InitData
<1>2. KeptInv /\ DataInv /\ [Next]_vars => (KeptInv /\ DataInv)'
  BY NextKept, NextData
<1>3. KeptInv /\ DataInv => TypeOK
  BY DataTypes
<1> QED BY <1>1, <1>2, <1>3, PTL DEF Spec

\* For any events, ranges, branches, bucket sizes and zones, and however runs
\* break off, are repeated or purge: the tables that answer one question agree
\* for as long as they are kept, the two of the blocked page included, and what
\* a page splits into buckets, branches, categories, actors or result codes
\* adds up to the events of its range.
THEOREM TablesTellOneTruth == Spec => []OneTruth
<1>1. Init => KeptInv /\ DataInv
  BY InitKept, InitData
<1>2. KeptInv /\ DataInv /\ [Next]_vars => (KeptInv /\ DataInv)'
  BY NextKept, NextData
<1>3. KeptInv /\ DataInv => OneTruth
  BY TablesTruth, PagesTruth DEF KeptInv, OneTruth
<1> QED BY <1>1, <1>2, <1>3, PTL DEF Spec

\* The roll-up loses no client's request and counts none twice, but for those
\* that a flush added between its read and its delete: the clients of a range
\* add up to at least the range and at most the hours around it, the leaderboard
\* splits the same sum, and a client is new in whole hours just when it is.
THEOREM ClientsRolledUpOnce == Spec => []RolledUpOnce
<1>1. Init => KeptInv /\ DataInv
  BY InitKept, InitData
<1>2. KeptInv /\ DataInv /\ [Next]_vars => (KeptInv /\ DataInv)'
  BY NextKept, NextData
<1>3. KeptInv /\ DataInv => RolledUpOnce
  BY ClientsTruth DEF KeptInv
<1> QED BY <1>1, <1>2, <1>3, PTL DEF Spec
=============================================================================
