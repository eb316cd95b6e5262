------------------------------ MODULE JobLease ------------------------------
(***************************************************************************)
(* The transfer lane's job contract: graphver.jobs as a durable queue, and *)
(* the worker slots that claim a row, hold it under a lease (id, epoch),   *)
(* move its cursor one unit of work at a time and settle it                *)
(* (versioning/job_lease.py, worker.py, import_export/).                   *)
(*                                                                         *)
(* Time appears only as what it makes possible: a running row whose        *)
(* heartbeat is older than INGEST_STALE_SECS is not fresh (GoStale), and a *)
(* reaper's timeout is a step that may be taken whenever its other         *)
(* conditions hold. A slot stands for one process running one job.         *)
(***************************************************************************)
EXTENDS Integers, FiniteSets

CONSTANTS
  Imports,      \* ingest jobs
  Exports,      \* export jobs
  DraftOf,      \* [Imports -> drafts]: the draft an import writes onto
  PreLease,     \* imports left running by a worker that predates the lease
  Slots,        \* worker slots, each of a process of its own
  NoJob,        \* what an idle slot holds
  Batches,      \* parse batches an import stages
  Windows,      \* node and edge windows an import then builds
  MaxRetries,   \* jobs.max_retries
  ClaimSkips,   \* _CLAIM_SKIPS
  MaxTries,     \* bound: faults one retry_transient call waits out
  MaxStops,     \* bound: shutdowns of a process that holds a lease
  MaxRequeues   \* bound: retries of a failed job by a person

Jobs == Imports \cup Exports

\* An import's cursor: 0 is NULL, 1..Batches is parse:<k>, Batches+1 is node:-1
\* and each window moves it by one. Unit u moves it from u-1 to u.
Last == Batches + 1 + Windows
Units == 1 .. Last

ASSUME JobLeaseAssumption ==
  /\ Imports \cap Exports = {}
  /\ NoJob \notin Jobs
  /\ Batches \in Nat \ {0} /\ Windows \in Nat
  /\ MaxRetries \in Nat /\ ClaimSkips \in Nat \ {0} /\ MaxTries \in Nat
  /\ MaxStops \in Nat /\ MaxRequeues \in Nat
  /\ PreLease \subseteq Imports
  /\ \A i, j \in PreLease : i # j => DraftOf[i] # DraftOf[j]

VARIABLES
  row,       \* the jobs table: one row per job
  fresh,     \* fresh[j]: updated_at is within INGEST_STALE_SECS
  limbo,     \* limbo[j]: the unit of a COMMIT sent whose outcome nobody knows yet
             \*   (its transaction still holds the row's lock), or 0
  applied,   \* applied[j][u]: how many times unit u's work has been committed
  files,     \* files[j]: the keys of export j under which a whole file is stored
  lease,     \* lease[w]: what slot w is running
  stops,     \* shutdowns so far
  requeues   \* retries by a person so far, per job

vars == <<row, fresh, limbo, applied, files, lease, stops, requeues>>

-----------------------------------------------------------------------------
Statuses == {"absent", "pending", "running", "completed", "failed", "cancelled"}
Phases == {"none", "queued", "work"}
Errors == {"none", "never_queued", "not_started", "interrupted", "poison", "raised"}
Row == [status : Statuses, phase : Phases, epoch : Nat, cursor : 0 .. Last,
        takeovers : Nat, error : Errors, result : Nat]

PCs == {"idle", "ready", "next", "work", "finish", "error"}
Lease == [pc : PCs, job : Jobs \cup {NoJob}, epoch : Nat, cur : 0 .. Last,
          tries : 0 .. MaxTries, lost : BOOLEAN, drain : BOOLEAN]

Idle == [pc |-> "idle", job |-> NoJob, epoch |-> 0, cur |-> 0,
         tries |-> 0, lost |-> FALSE, drain |-> FALSE]

Active(j) == row[j].status \in {"pending", "running"}
Ended(j) == row[j].status \in {"completed", "failed", "cancelled"}
Busy(w) == lease[w].pc # "idle"

\* No transaction in doubt holds the row's lock. Every write of the row waits
\* for it; a claim skips the row (SKIP LOCKED).
Unlocked(j) == limbo[j] = 0

\* The WHERE of every write through a lease: (id, epoch, status = 'running').
FencedAnyStatus(w) == row[lease[w].job].epoch = lease[w].epoch
Fenced(w) == /\ row[lease[w].job].epoch = lease[w].epoch
             /\ row[lease[w].job].status = "running"

\* A checkpoint's compare-and-set: the fence, and the cursor the unit started from.
CasNoCursor(w) == Fenced(w)
Cas(w) == Fenced(w) /\ row[lease[w].job].cursor = lease[w].cur

Drop(w) == lease' = [lease EXCEPT ![w] = Idle]

\* What row j becomes, the other rows as they are.
Write(j, r) == row' = [row EXCEPT ![j] = r]

-----------------------------------------------------------------------------
(* Claim                                                                   *)

Claimable(j) ==
  /\ Unlocked(j)
  /\ \/ row[j].status = "pending" /\ row[j].phase = "queued"
     \/ row[j].status = "running" /\ ~fresh[j]

\* Rows staged with no cursor: a worker from before the lease staged them.
StagedPreLease(j) == row[j].cursor = 0 /\ applied[j][1] > 0

Poison(j) == row[j].status = "running" /\ row[j].takeovers + 1 > MaxRetries

DoomedPoisonOnly(j) == Poison(j)
Doomed(j) == StagedPreLease(j) \/ Poison(j)

\* _failed_in_place on a doomed row.
FailedInPlace(j) ==
  IF StagedPreLease(j)
  THEN [row[j] EXCEPT !.status = "failed", !.error = "interrupted"]
  ELSE [row[j] EXCEPT !.status = "failed", !.error = "poison", !.takeovers = @ + 1]

\* Every claim bumps the epoch; one of a running row counts a takeover.
TakenNoBump(j) ==
  [row[j] EXCEPT !.status = "running", !.error = "none",
                 !.epoch = IF row[j].status = "running" THEN @ + 1 ELSE @,
                 !.phase = IF @ = "queued" THEN "none" ELSE @,
                 !.takeovers = IF row[j].status = "running" THEN @ + 1 ELSE @]
Taken(j) ==
  [row[j] EXCEPT !.status = "running", !.error = "none", !.epoch = @ + 1,
                 !.phase = IF @ = "queued" THEN "none" ELSE @,
                 !.takeovers = IF row[j].status = "running" THEN @ + 1 ELSE @]

\* claim: one transaction that fails the doomed rows it meets (in whatever order
\* the fair-share ordering gives) and takes the first that may run, or none.
Claim(w) ==
  /\ ~Busy(w)
  /\ \E F \in SUBSET {j \in Jobs : Claimable(j) /\ Doomed(j)} :
       \/ \E c \in {j \in Jobs : Claimable(j) /\ ~Doomed(j)} :
            /\ Cardinality(F) < ClaimSkips
            /\ row' = [j \in Jobs |-> IF j = c THEN Taken(j)
                                      ELSE IF j \in F THEN FailedInPlace(j) ELSE row[j]]
            /\ fresh' = [fresh EXCEPT ![c] = TRUE]
            /\ lease' = [lease EXCEPT ![w] =
                 [Idle EXCEPT !.pc = "ready", !.job = c, !.epoch = Taken(c).epoch]]
       \/ /\ F # {}
          /\ Cardinality(F) = ClaimSkips \/ F = {j \in Jobs : Claimable(j)}
          /\ row' = [j \in Jobs |-> IF j \in F THEN FailedInPlace(j) ELSE row[j]]
          /\ UNCHANGED <<fresh, lease>>
  /\ UNCHANGED <<limbo, applied, files, stops, requeues>>

-----------------------------------------------------------------------------
(* The heartbeat, and its absence                                          *)

\* renew_once for one lease: the row is beaten, or the lease found lost. A row
\* whose lock is not to be had fails the statement and marks nothing.
Renew(w) ==
  LET j == lease[w].job IN
  /\ Busy(w) /\ Unlocked(j)
  /\ IF Fenced(w)
     THEN fresh' = [fresh EXCEPT ![j] = TRUE] /\ UNCHANGED lease
     ELSE lease' = [lease EXCEPT ![w].lost = TRUE] /\ UNCHANGED fresh
  /\ UNCHANGED <<row, limbo, applied, files, stops, requeues>>

\* No renewal reached the row for INGEST_STALE_SECS: its process died, or it lives
\* and Postgres was unreachable from it, or its event loop is wedged.
GoStale(j) ==
  /\ row[j].status = "running" /\ fresh[j]
  /\ fresh' = [fresh EXCEPT ![j] = FALSE]
  /\ UNCHANGED <<row, limbo, applied, files, lease, stops, requeues>>

-----------------------------------------------------------------------------
(* An import's run                                                         *)

\* What follows a cursor: a batch to parse (which checks the lease again first), the
\* end of the parse or a window to build, or, past the last window, the finish.
StageOfShort(c) == IF c < Batches THEN "next" ELSE IF c + 1 >= Last THEN "finish" ELSE "work"
StageOf(c) == IF c < Batches THEN "next" ELSE IF c = Last THEN "finish" ELSE "work"

\* _position at the start of an attempt, after check(): the cursor as the row has
\* it now; Superseded when the row is not this lease's any more.
Begin(w) ==
  LET l == lease[w]
      c == row[l.job].cursor IN
  /\ l.pc = "ready" /\ l.job \in Imports /\ ~l.lost /\ ~l.drain
  /\ lease' = [lease EXCEPT ![w] =
       IF Fenced(w)
       THEN [l EXCEPT !.cur = c, !.pc = StageOf(c)]
       ELSE Idle]
  /\ UNCHANGED <<row, fresh, limbo, applied, files, stops, requeues>>

\* _flush's own check() between two batches, on the cursor the worker remembers.
NextBatch(w) ==
  /\ lease[w].pc = "next" /\ ~lease[w].lost /\ ~lease[w].drain
  /\ lease' = [lease EXCEPT ![w].pc = "work"]
  /\ UNCHANGED <<row, fresh, limbo, applied, files, stops, requeues>>

\* Unit u of job j is committed together with its checkpoint.
LandResetTakeovers(j, u) ==
  /\ Write(j, [row[j] EXCEPT !.cursor = u, !.phase = "work", !.takeovers = 0])
  /\ applied' = [applied EXCEPT ![j][u] = @ + 1]
  /\ fresh' = [fresh EXCEPT ![j] = TRUE]
LandWorkOnly(j, u) ==
  /\ Write(j, [row[j] EXCEPT !.phase = "work"])
  /\ applied' = [applied EXCEPT ![j][u] = @ + 1]
  /\ fresh' = [fresh EXCEPT ![j] = TRUE]
Land(j, u) ==
  /\ Write(j, [row[j] EXCEPT !.cursor = u, !.phase = "work"])
  /\ applied' = [applied EXCEPT ![j][u] = @ + 1]
  /\ fresh' = [fresh EXCEPT ![j] = TRUE]

\* The unit's transaction commits and the worker is told so. Within one _stage
\* call the worker goes on from the cursor it wrote; a window reads it afresh.
CommitLands(w) ==
  LET l == lease[w]
      u == l.cur + 1 IN
  /\ l.pc = "work" /\ l.job \in Imports /\ Unlocked(l.job) /\ Cas(w)
  /\ Land(l.job, u)
  /\ lease' = [lease EXCEPT ![w] =
       [l EXCEPT !.cur = u,
                 !.pc = IF u < Batches THEN "next" ELSE IF u = Batches THEN "work" ELSE "ready",
                 !.tries = IF u <= Batches THEN @ ELSE 0]]
  /\ UNCHANGED <<limbo, files, stops, requeues>>

\* The COMMIT is sent and the connection lost: the transaction may still land.
\* The worker waits the fault out and starts over from the row, or gives up.
CommitInDoubt(w) ==
  LET l == lease[w] IN
  /\ l.pc = "work" /\ l.job \in Imports /\ Unlocked(l.job) /\ Cas(w)
  /\ limbo' = [limbo EXCEPT ![l.job] = l.cur + 1]
  /\ lease' = [lease EXCEPT ![w] =
       IF l.tries < MaxTries THEN [l EXCEPT !.pc = "ready", !.tries = @ + 1]
       ELSE [l EXCEPT !.pc = "error"]]
  /\ UNCHANGED <<row, fresh, applied, files, stops, requeues>>

\* The compare-and-set matched no row: Superseded, and the unit rolls back with it.
CommitRefused(w) ==
  /\ lease[w].pc = "work" /\ lease[w].job \in Imports /\ Unlocked(lease[w].job) /\ ~Cas(w)
  /\ Drop(w)
  /\ UNCHANGED <<row, fresh, limbo, applied, files, stops, requeues>>

\* A transient fault before the commit: the unit rolls back and is tried again.
Fault(w) ==
  /\ lease[w].pc = "work" /\ lease[w].job \in Imports /\ lease[w].tries < MaxTries
  /\ lease' = [lease EXCEPT ![w].pc = "ready", ![w].tries = @ + 1]
  /\ UNCHANGED <<row, fresh, limbo, applied, files, stops, requeues>>

\* Postgres settles a transaction nobody is waiting for any more.
Resolve(j) ==
  /\ ~Unlocked(j)
  /\ limbo' = [limbo EXCEPT ![j] = 0]
  /\ \/ Land(j, limbo[j])
     \/ UNCHANGED <<row, applied, fresh>>
  /\ UNCHANGED <<files, lease, stops, requeues>>

-----------------------------------------------------------------------------
(* An export's run                                                         *)

\* epoch_key: an attempt's own file, the first attempt's under the plain name.
EpochKeyShared(e) == 1
EpochKey(e) == IF e <= 1 THEN 1 ELSE e

\* The attempt's key names a whole file, or (truncated, half written, deleted) none.
Whole(w) == files' = [files EXCEPT ![lease[w].job] = @ \cup {EpochKey(lease[w].epoch)}]
NotWhole(w) == files' = [files EXCEPT ![lease[w].job] = @ \ {EpochKey(lease[w].epoch)}]

\* put_stream opens (and truncates) the file under the attempt's key.
OpenFile(w) ==
  /\ lease[w].pc = "ready" /\ lease[w].job \in Exports
  /\ NotWhole(w)
  /\ lease' = [lease EXCEPT ![w].pc = "work"]
  /\ UNCHANGED <<row, fresh, limbo, applied, stops, requeues>>

\* progress(): check(), then a fenced checkpoint that keeps the row's takeovers.
\* Superseded and Draining come out of put_stream, which removes the part it wrote.
Progress(w) ==
  LET l == lease[w] IN
  /\ l.pc = "work" /\ l.job \in Exports /\ Unlocked(l.job)
  /\ IF ~l.lost /\ Fenced(w)
     THEN ~l.drain /\ fresh' = [fresh EXCEPT ![l.job] = TRUE] /\ UNCHANGED <<files, lease>>
     ELSE NotWhole(w) /\ Drop(w) /\ UNCHANGED fresh
  /\ UNCHANGED <<row, limbo, applied, stops, requeues>>

\* The last chunk is written and the file closed.
StoreFile(w) ==
  /\ lease[w].pc = "work" /\ lease[w].job \in Exports
  /\ Whole(w)
  /\ lease' = [lease EXCEPT ![w].pc = "finish"]
  /\ UNCHANGED <<row, fresh, limbo, applied, stops, requeues>>

-----------------------------------------------------------------------------
(* Settling a lease                                                        *)

\* finish: the end of the run, fenced. A superseded export deletes its own file.
Finish(w) ==
  LET l == lease[w]
      j == l.job IN
  /\ l.pc = "finish" /\ Unlocked(j)
  /\ IF Fenced(w)
     THEN /\ Write(j, [row[j] EXCEPT !.status = "completed",
                         !.result = IF j \in Exports THEN EpochKey(l.epoch) ELSE 0])
          /\ UNCHANGED files
     ELSE /\ IF j \in Exports THEN NotWhole(w) ELSE UNCHANGED files
          /\ UNCHANGED row
  /\ Drop(w)
  /\ UNCHANGED <<fresh, limbo, applied, stops, requeues>>

\* A run raises: its data is refused, or an outage outlasted the retry budget. A
\* broken export's put_stream removes the part of the file it wrote.
Raise(w) ==
  /\ lease[w].pc \in {"ready", "next", "work", "finish"}
  /\ IF lease[w].job \in Exports /\ lease[w].pc = "work"
     THEN NotWhole(w) ELSE UNCHANGED files
  /\ lease' = [lease EXCEPT ![w].pc = "error"]
  /\ UNCHANGED <<row, fresh, limbo, applied, stops, requeues>>

\* _run_safe records it with Lease.fail, fenced.
Fail(w) ==
  LET j == lease[w].job IN
  /\ lease[w].pc = "error" /\ Unlocked(j)
  /\ IF Fenced(w) THEN Write(j, [row[j] EXCEPT !.status = "failed", !.error = "raised"])
     ELSE UNCHANGED row
  /\ Drop(w)
  /\ UNCHANGED <<fresh, limbo, applied, files, stops, requeues>>

\* check() finds the lease lost: the worker stops quietly.
Quiet(w) ==
  /\ lease[w].pc \in {"ready", "next"} /\ lease[w].job \in Imports /\ lease[w].lost
  /\ Drop(w)
  /\ UNCHANGED <<row, fresh, limbo, applied, files, stops, requeues>>

\* The process is told to stop: the lease's drain is set.
Stop(w) ==
  /\ Busy(w) /\ ~lease[w].drain /\ stops < MaxStops
  /\ lease' = [lease EXCEPT ![w].drain = TRUE]
  /\ stops' = stops + 1
  /\ UNCHANGED <<row, fresh, limbo, applied, files, requeues>>

\* release, at the next boundary (Draining) or when the drain is over (cancelled):
\* pending and queued again, cursor and epoch kept.
ReleasedUnqueued(j) == [row[j] EXCEPT !.status = "pending"]
ReleasedByPhase(j) == [row[j] EXCEPT !.status = "queued"]
Released(j) == [row[j] EXCEPT !.status = "pending", !.phase = "queued"]

Release(w) ==
  LET l == lease[w] IN
  /\ l.pc \in {"ready", "next", "work", "finish"} /\ l.drain
  /\ ~(l.lost /\ l.pc \in {"ready", "next"} /\ l.job \in Imports)
  /\ Unlocked(l.job)
  /\ IF Fenced(w) THEN Write(l.job, Released(l.job)) ELSE UNCHANGED row
  /\ IF l.job \in Exports /\ l.pc = "work" THEN NotWhole(w) ELSE UNCHANGED files
  /\ Drop(w)
  /\ UNCHANGED <<fresh, limbo, applied, stops, requeues>>

\* The process dies, or the settling write itself fails: the row stays as it is and
\* goes stale, and half a file may be left under the attempt's key.
Crash(w) ==
  /\ Busy(w)
  /\ Drop(w)
  /\ UNCHANGED <<row, fresh, limbo, applied, files, stops, requeues>>

-----------------------------------------------------------------------------
(* The API and the reaper                                                  *)

\* _import_on, read under the draft's lock: another import pending or running there.
DraftBusyRunningOnly(j) ==
  \E i \in Imports \ {j} : DraftOf[i] = DraftOf[j] /\ row[i].status = "running"
DraftBusy(j) == \E i \in Imports \ {j} : DraftOf[i] = DraftOf[j] /\ Active(i)

\* create_import_job / create_export_job: pending, with no phase until it is queued.
Create(j) ==
  /\ row[j].status = "absent"
  /\ j \in Imports => ~DraftBusy(j)
  /\ Write(j, [row[j] EXCEPT !.status = "pending"])
  /\ UNCHANGED <<fresh, limbo, applied, files, lease, stops, requeues>>

\* _start: its input is stored, a worker may take it.
Start(j) ==
  /\ row[j].status = "pending" /\ row[j].phase # "queued"
  /\ Write(j, [row[j] EXCEPT !.phase = "queued"])
  /\ UNCHANGED <<fresh, limbo, applied, files, lease, stops, requeues>>

\* abandon_unqueued (the request broke off) and JobReaper's NEVER QUEUED rule (the
\* request is gone): the same update of a pending row with no phase.
FailNeverQueued(j) ==
  /\ row[j].status = "pending" /\ row[j].phase = "none"
  /\ Write(j, [row[j] EXCEPT !.status = "failed", !.error = "never_queued"])
  /\ UNCHANGED <<fresh, limbo, applied, files, lease, stops, requeues>>

\* JobReaper's QUEUED too long rule: nobody claimed it and no job of the lane beats.
FailNotStarted(j) ==
  /\ row[j].status = "pending" /\ row[j].phase = "queued"
  /\ ~\E i \in Jobs : row[i].status = "running" /\ fresh[i]
  /\ Write(j, [row[j] EXCEPT !.status = "failed", !.error = "not_started"])
  /\ UNCHANGED <<fresh, limbo, applied, files, lease, stops, requeues>>

\* reclaim_import: an import whose file never arrived is taken back, unqueued.
ReclaimImport(j) ==
  /\ j \in Imports /\ row[j].status = "failed"
  /\ row[j].phase = "none" /\ row[j].error = "never_queued"
  /\ ~DraftBusy(j) /\ requeues[j] < MaxRequeues
  /\ Write(j, [row[j] EXCEPT !.status = "pending", !.error = "none"])
  /\ requeues' = [requeues EXCEPT ![j] = @ + 1]
  /\ UNCHANGED <<fresh, limbo, applied, files, lease, stops>>

\* requeue_failed: a person retries a failed import. It resumes from its cursor; with
\* none, what was staged is dropped. Its takeover count starts over.
RequeueFailed(j) ==
  /\ j \in Imports /\ row[j].status = "failed" /\ Unlocked(j)
  /\ ~DraftBusy(j) /\ requeues[j] < MaxRequeues
  /\ Write(j, [row[j] EXCEPT !.status = "pending", !.phase = "queued",
                             !.error = "none", !.takeovers = 0])
  /\ applied' = IF row[j].cursor = 0
                THEN [applied EXCEPT ![j] = [u \in Units |-> 0]] ELSE applied
  /\ requeues' = [requeues EXCEPT ![j] = @ + 1]
  /\ UNCHANGED <<fresh, limbo, files, lease, stops>>

\* cancel_export, of one not ended.
CancelExport(j) ==
  /\ j \in Exports /\ Active(j)
  /\ Write(j, [row[j] EXCEPT !.status = "cancelled"])
  /\ UNCHANGED <<fresh, limbo, applied, files, lease, stops, requeues>>

-----------------------------------------------------------------------------
NoRow == [status |-> "absent", phase |-> "none", epoch |-> 0, cursor |-> 0,
          takeovers |-> 0, error |-> "none", result |-> 0]

Init ==
  /\ row = [j \in Jobs |-> IF j \in PreLease
                           THEN [NoRow EXCEPT !.status = "running", !.phase = "work"]
                           ELSE NoRow]
  /\ fresh = [j \in Jobs |-> FALSE]
  /\ limbo = [j \in Jobs |-> 0]
  /\ applied = [j \in Jobs |-> [u \in Units |-> IF j \in PreLease /\ u = 1 THEN 1 ELSE 0]]
  /\ files = [j \in Jobs |-> {}]
  /\ lease = [w \in Slots |-> Idle]
  /\ stops = 0
  /\ requeues = [j \in Jobs |-> 0]

\* What a slot's task does of its own accord.
Work(w) ==
  \/ Begin(w) \/ NextBatch(w) \/ CommitLands(w) \/ CommitRefused(w)
  \/ OpenFile(w) \/ StoreFile(w)
  \/ Finish(w) \/ Fail(w) \/ Quiet(w) \/ Release(w)

\* What happens to it.
Mishap(w) == CommitInDoubt(w) \/ Fault(w) \/ Raise(w) \/ Stop(w) \/ Crash(w)

Request(j) ==
  \/ Create(j) \/ Start(j) \/ ReclaimImport(j) \/ RequeueFailed(j) \/ CancelExport(j)

Reaper(j) == FailNeverQueued(j) \/ FailNotStarted(j)

Next ==
  \/ \E w \in Slots : Claim(w) \/ Renew(w) \/ Progress(w) \/ Work(w) \/ Mishap(w)
  \/ \E j \in Jobs : GoStale(j) \/ Resolve(j) \/ Request(j) \/ Reaper(j)

Spec == Init /\ [][Next]_vars

\* A row nobody renews: no slot holds its current epoch.
Orphan(j) == ~\E w \in Slots : Busy(w) /\ lease[w].job = j /\ lease[w].epoch = row[j].epoch

\* A running task goes on, an idle slot polls for jobs, the row of a dead worker ages,
\* Postgres settles its transactions, and the reaper runs every minute.
Fairness ==
  /\ \A w \in Slots : WF_vars(Work(w)) /\ WF_vars(Claim(w))
  /\ \A j \in Jobs : /\ WF_vars(Orphan(j) /\ GoStale(j))
                     /\ WF_vars(Resolve(j))
                     /\ WF_vars(FailNeverQueued(j))

FairSpec == Spec /\ Fairness

-----------------------------------------------------------------------------
\* What the lane promises, with the slots, leases, faults and epochs left out.
Contract == INSTANCE JobContract WITH
  state <- [j \in Jobs |-> IF Active(j) THEN "active" ELSE row[j].status],
  work <- applied

-----------------------------------------------------------------------------
(* Properties                                                              *)

\* Every variable has its type.
TypeOK ==
  /\ row \in [Jobs -> Row]
  /\ fresh \in [Jobs -> BOOLEAN]
  /\ limbo \in [Jobs -> 0 .. Last]
  /\ applied \in [Jobs -> [Units -> Nat]]
  /\ files \in [Jobs -> SUBSET Nat]
  /\ lease \in [Slots -> Lease]
  /\ stops \in 0 .. MaxStops
  /\ requeues \in [Jobs -> 0 .. MaxRequeues]

\* job_lease: "(id, epoch) names exactly one ownership". Two slots running the same
\* job hold different epochs, whatever was released, requeued or taken over.
SoleOwner ==
  \A v, w \in Slots :
    v # w /\ Busy(v) /\ Busy(w) /\ lease[v].job = lease[w].job
      => lease[v].epoch # lease[w].epoch

\* _next_window and _flush: a resumed import neither repeats nor skips a unit. The
\* units up to the cursor have been committed once each and no other at all, except
\* the rows a worker from before the lease staged with no cursor.
ExactlyOnce ==
  \A j \in Jobs : \A u \in Units :
    /\ u <= row[j].cursor => applied[j][u] = 1
    /\ u > row[j].cursor => \/ applied[j][u] = 0
                            \/ j \in PreLease /\ StagedPreLease(j) /\ u = 1 /\ applied[j][u] = 1

\* ImportWorker.run: an import reported completed has every unit of its file on the draft.
CompletedIsWhole ==
  \A j \in Imports : row[j].status = "completed" => \A u \in Units : applied[j][u] = 1

\* create_import_job, reclaim_import, requeue_failed: one import at a time per draft.
OneImportPerDraft ==
  \A i, j \in Imports : i # j /\ DraftOf[i] = DraftOf[j] => ~(Active(i) /\ Active(j))

\* _failed_in_place: a job whose worker keeps dying is claimed a bounded number of times;
\* only a person's retry or an orderly release grants more claims.
PoisonBounded ==
  \A j \in Jobs : row[j].epoch <= (requeues[j] + 1) * (MaxRetries + 1) + stops

\* ExportWorker: the file a completed export names is there, whole, and stays so whatever
\* superseded attempts write or delete.
ResultIntact ==
  \A j \in Exports : row[j].status = "completed" => row[j].result \in files[j]

\* Lease._fenced: a lease that has stopped matching its row never matches it again, so a
\* zombie cannot come back to write after its job was failed, requeued or taken over.
ZombieStaysFenced ==
  [][\A w \in Slots :
       Busy(w) /\ ~Fenced(w) /\ lease'[w].job = lease[w].job /\ lease'[w].epoch = lease[w].epoch
         => ~Fenced(w)']_vars

\* checkpoint's transaction: a job that has ended and stays ended gets no more work
\* applied, and one completed or cancelled never changes again.
EndedIsQuiet ==
  [][\A j \in Jobs :
       /\ Ended(j) /\ Ended(j)' => applied'[j] = applied[j]
       /\ row[j].status \in {"completed", "cancelled"} => row'[j] = row[j]]_vars

\* The lane as a whole: a created job ends (a claim, the takeovers' limit or the reaper
\* sees to it), whatever crashes, shutdowns, faults and stolen leases happen to it.
EveryJobEnds == \A j \in Jobs : Active(j) ~> Ended(j)

\* The lease, its fences and its takeovers together: to anyone who reads jobs and drafts,
\* a job is worked on one unit at a time, in order, by an invisible worker.
ImplementsContract == Contract!Spec

-----------------------------------------------------------------------------
(* The inductive strengthening of SoleOwner, ExactlyOnce and               *)
(* CompletedIsWhole                                                        *)

\* A lease names a job and an epoch its row has reached.
OwnerInv ==
  \A w \in Slots : Busy(w) =>
    /\ lease[w].job \in Jobs
    /\ 1 <= lease[w].epoch /\ lease[w].epoch <= row[lease[w].job].epoch

\* A unit in progress is one of the job's, and only the last cursor is finished at.
CursorInv ==
  \A w \in Slots : Busy(w) /\ lease[w].job \in Imports =>
    /\ lease[w].pc \in {"next", "work"} => lease[w].cur < Last
    /\ lease[w].pc = "finish" => row[lease[w].job].cursor = Last

\* A row locked by a commit in doubt is running and about to move by one unit.
LimboInv ==
  \A j \in Jobs : limbo[j] # 0 =>
    j \in Imports /\ row[j].status = "running" /\ limbo[j] = row[j].cursor + 1

\* Nobody runs, or is committing to, a job with rows from before the lease.
PreLeaseInv ==
  \A j \in Jobs : StagedPreLease(j) =>
    limbo[j] = 0 /\ \A w \in Slots : Busy(w) => lease[w].job # j

CompletedInv == \A j \in Imports : row[j].status = "completed" => row[j].cursor = Last

\* A lease's work is fenced, placed and recorded: what every step preserves together.
LeaseInv ==
  OwnerInv /\ SoleOwner /\ CursorInv /\ LimboInv /\ PreLeaseInv /\ ExactlyOnce /\ CompletedInv

-----------------------------------------------------------------------------
(* The inductive strengthening of PoisonBounded and ResultIntact           *)

\* The row's owner has been told to stop and may still hand the job back.
Draining(j) ==
  \E w \in Slots : /\ Busy(w) /\ lease[w].job = j /\ lease[w].epoch = row[j].epoch
                   /\ lease[w].drain

\* A job's claims are paid for: by its retries, by the takeovers counted since the last of them,
\* by shutdowns, and one by the claim that runs it, unless its owner's shutdown has.
ClaimsInv ==
  \A j \in Jobs :
    LET r == row[j]
        granted == requeues[j] * (MaxRetries + 1) IN
    /\ r.status \in {"absent", "pending"} => r.epoch <= granted + r.takeovers + stops
    /\ r.status = "running" => /\ r.epoch <= granted + r.takeovers + stops + 1
                               /\ Draining(j) => r.epoch <= granted + r.takeovers + stops
    /\ Ended(j) => r.epoch <= granted + MaxRetries + 1 + stops
    /\ r.status # "failed" \/ r.error = "never_queued" => r.takeovers <= MaxRetries

\* An export's attempt about to finish has its file whole under a key of its own; a completed
\* export names its last attempt's, and nobody runs that attempt any more.
FileInv ==
  /\ \A w \in Slots : Busy(w) /\ lease[w].job \in Exports /\ lease[w].pc = "finish" =>
       EpochKey(lease[w].epoch) \in files[lease[w].job]
  /\ \A j \in Exports : row[j].status = "completed" =>
       Orphan(j) /\ row[j].result = EpochKey(row[j].epoch) /\ row[j].result \in files[j]
=============================================================================
