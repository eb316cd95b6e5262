---------------------------- MODULE DraftPublish ----------------------------
(***************************************************************************)
(* A graph's drafts on their way to main: edits staged, checkpointed and   *)
(* pulled, reviews opened, approved and closed, and the squash that lands  *)
(* a draft, run inside a request or by a publish job whose worker may die  *)
(* or be taken over (versioning/service.py, import_export/service.py).     *)
(*                                                                         *)
(* A transaction under the draft's row lock or the graph's advisory lock   *)
(* is one step. What the code reads before such a lock, or in a statement  *)
(* whose READ COMMITTED snapshot may be older than the row it then writes, *)
(* is a step of its own. An edit is opaque; a refusal by permission,       *)
(* conflict, ontology or contention may come at any point (Refuse).        *)
(***************************************************************************)
EXTENDS Integers, Sequences, FiniteSets

CONSTANTS
  Drafts, Edits, PRs, PubJobs,
  Requests,       \* requests that publish or merge
  Slots,          \* worker slots that run publish jobs
  Importing,      \* drafts imports may write onto
  Idling,         \* drafts that may be left alone past the TTL
  NoDraft, NoPR, NoJob, Nobody,
  MaxRetries,     \* jobs.max_retries
  MaxEpoch,       \* bound: claims of a job, as far as shutdowns hand it back
  MaxMain,        \* bound: main's length, as far as other writes of main go
  MaxHead         \* bound: commits on a draft, as far as its editors go

Procs == Requests \cup Slots

ASSUME DraftPublishAssumption ==
  /\ Requests \cap Slots = {}
  /\ NoDraft \notin Drafts /\ NoPR \notin PRs /\ NoJob \notin PubJobs /\ Nobody \notin Procs
  /\ Importing \subseteq Drafts /\ Idling \subseteq Drafts
  /\ MaxRetries \in Nat /\ MaxEpoch \in Nat /\ MaxMain \in Nat /\ MaxHead \in Nat

VARIABLES
  main,       \* main's commits: what each squash landed
  glock,      \* who holds the graph's advisory lock across steps, or Nobody
  draft,      \* the branches table and each draft's changes
  pr,         \* the merge_requests table, "opening" before the row is inserted
  job,        \* the publish jobs' rows
  imp,        \* imp[d]: the import on draft d
  pub,        \* pub[p]: how far process p has come
  sweeping,   \* drafts in the snapshot of the sweep's UPDATE, not reached yet
  stuck,      \* drafts in the snapshot of the reaper's release, not reached yet
  given,      \* given[d]: every edit ever accepted onto draft d
  withdrawn   \* staged edits dropped because their author lost the draft

vars == <<main, glock, draft, pr, job, imp, pub, sweeping, stuck, given, withdrawn>>

-----------------------------------------------------------------------------
NoApproval == [seq |-> -1, own |-> {}, rev |-> 0]
Approval == [seq : Int, own : SUBSET Edits, rev : Nat]
Commit == [from : Drafts \cup {NoDraft}, base : Nat, edits : SUBSET Edits, rev : Nat,
           reviewed : BOOLEAN, saw : Approval]

\* head: the seq of its last commit; content: of the last that changed its content; rev: the
\* pulls that rewrote its edits; idle: updated_at is older than the TTL.
Draft == [status : {"absent", "open", "publishing", "merged", "abandoned"}, base : Nat,
          head : Nat, content : Nat, rev : Nat, idle : BOOLEAN,
          pending : SUBSET Edits, own : SUBSET Edits]
PR == [status : {"absent", "opening", "live", "merged", "closed"},
       draft : Drafts \cup {NoDraft}, reviewed : BOOLEAN, approval : Approval]
Job == [status : {"absent", "pending", "running", "completed", "failed"},
        draft : Drafts \cup {NoDraft}, pr : PRs \cup {NoPR}, epoch : Nat, takeovers : Nat]
PCs == {"idle", "start", "flush", "squash", "merge", "refused", "done", "failing", "release"}
Pub == [pc : PCs, draft : Drafts \cup {NoDraft}, pr : PRs \cup {NoPR},
        job : PubJobs \cup {NoJob}, epoch : Nat, copy : PR]

NewDraft == [status |-> "absent", base |-> 0, head |-> 0, content |-> 0, rev |-> 0,
             idle |-> FALSE, pending |-> {}, own |-> {}]
NewPR == [status |-> "absent", draft |-> NoDraft, reviewed |-> FALSE, approval |-> NoApproval]
NewJob == [status |-> "absent", draft |-> NoDraft, pr |-> NoPR, epoch |-> 0, takeovers |-> 0]
Idle == [pc |-> "idle", draft |-> NoDraft, pr |-> NoPR, job |-> NoJob, epoch |-> 0,
         copy |-> NewPR]

Open(d) == draft[d].status = "open"
Fresh == Edits \ UNION {given[d] : d \in Drafts}
Live(d) == \E i \in PRs : pr[i].status = "live" /\ pr[i].draft = d
JobOnEver(d) == \E j \in PubJobs : job[j].status # "completed" /\ job[j].draft = d
JobOn(d) == \E j \in PubJobs : job[j].status \in {"pending", "running"} /\ job[j].draft = d

\* _require_open(publishing_ok = queued)
OpenToNotAbandoned(p) == draft[pub[p].draft].status \notin {"absent", "abandoned"}
OpenTo(p) == \/ draft[pub[p].draft].status = "open"
             \/ pub[p].job # NoJob /\ draft[pub[p].draft].status = "publishing"

\* _require_no_import: an import pending or running, one the reaper will fail aside.
ImportOnLate(d) == imp[d] = "late"
ImportOn(d) == imp[d] \in {"live", "late"}

\* Row d becomes r; row i of the merge requests becomes q.
Put(d, r) == draft' = [draft EXCEPT ![d] = r]
PutPR(i, q) == pr' = [pr EXCEPT ![i] = q]

Unlocked(p) == glock \in {Nobody, p}
Free(p) == glock' = IF glock = p THEN Nobody ELSE glock

-----------------------------------------------------------------------------
(* Editing a draft, under its row lock                                     *)

OpenDraft(d) ==
  /\ draft[d].status = "absent"
  /\ Put(d, [NewDraft EXCEPT !.status = "open", !.base = Len(main)])
  /\ UNCHANGED <<main, glock, pr, job, imp, pub, sweeping, stuck, given, withdrawn>>

\* stage_changes leaves the branch row, and so updated_at, as it is.
Stage(d, e) ==
  /\ Open(d) /\ e \in Fresh
  /\ Put(d, [draft[d] EXCEPT !.pending = @ \cup {e}])
  /\ given' = [given EXCEPT ![d] = @ \cup {e}]
  /\ UNCHANGED <<main, glock, pr, job, imp, pub, sweeping, stuck, withdrawn>>

\* A content commit of the edits E on draft r.
Committed(r, E) == [r EXCEPT !.own = @ \cup E, !.head = r.head + 1, !.content = r.head + 1,
                             !.idle = FALSE]

\* _checkpoint_once: W, staged by people who may no longer write the draft, is deleted; K is
\* folded into a commit, if there is anything to fold.
Folded(r, K, W) ==
  LET s == [r EXCEPT !.pending = @ \ (K \cup W)] IN
  IF K = {} THEN s ELSE Committed(s, K)

Checkpoint(d) ==
  /\ Open(d) /\ draft[d].pending # {} /\ draft[d].head < MaxHead
  /\ \E K, W \in SUBSET draft[d].pending :
       /\ K \cap W = {}
       /\ Put(d, Folded(draft[d], K, W))
       /\ withdrawn' = withdrawn \cup W
  /\ UNCHANGED <<main, glock, pr, job, imp, pub, sweeping, stuck, given>>

\* apply_ops on a draft: a canvas save, committed at once.
Save(d, e) ==
  /\ Open(d) /\ e \in Fresh /\ draft[d].head < MaxHead
  /\ Put(d, Committed(draft[d], {e}))
  /\ given' = [given EXCEPT ![d] = @ \cup {e}]
  /\ UNCHANGED <<main, glock, pr, job, imp, pub, sweeping, stuck, withdrawn>>

\* rebase_draft on main's current head: always a commit, of content when it rewrites the
\* draft's own edits.
Pull(d) ==
  /\ Open(d) /\ draft[d].base < Len(main) /\ draft[d].head < MaxHead
  /\ \E rewrite \in {FALSE, draft[d].own # {}} :
       Put(d, [draft[d] EXCEPT !.base = Len(main), !.head = @ + 1, !.idle = FALSE,
                               !.content = IF rewrite THEN draft[d].head + 1 ELSE @,
                               !.rev = IF rewrite THEN @ + 1 ELSE @])
  /\ UNCHANGED <<main, glock, pr, job, imp, pub, sweeping, stuck, given, withdrawn>>

AbandonedDeleted(d) == [draft[d] EXCEPT !.status = "deleted", !.idle = FALSE]
Abandoned(d) == [draft[d] EXCEPT !.status = "abandoned", !.idle = FALSE]

Abandon(d) ==
  /\ Open(d)
  /\ Put(d, Abandoned(d))
  /\ UNCHANGED <<main, glock, pr, job, imp, pub, sweeping, stuck, given, withdrawn>>

\* Nobody has touched the branch row for DRAFT_TTL_DAYS.
GoIdle(d) ==
  /\ d \in Idling /\ Open(d) /\ ~draft[d].idle
  /\ Put(d, [draft[d] EXCEPT !.idle = TRUE])
  /\ UNCHANGED <<main, glock, pr, job, imp, pub, sweeping, stuck, given, withdrawn>>

\* sweep_idle_drafts is one UPDATE: its subqueries (no live PR, nothing staged) are judged in
\* the snapshot it starts from ...
SweepRead ==
  /\ sweeping = {}
  /\ sweeping' = {d \in Drafts : Open(d) /\ draft[d].idle /\ ~Live(d) /\ draft[d].pending = {}}
  /\ UNCHANGED <<main, glock, draft, pr, job, imp, pub, stuck, given, withdrawn>>

\* ... and the row's own columns again when it has been written since.
StillSweptBlind(d) == TRUE
StillSwept(d) == Open(d) /\ draft[d].idle
SweepWrite(d) ==
  /\ d \in sweeping
  /\ sweeping' = sweeping \ {d}
  /\ IF StillSwept(d) THEN Put(d, Abandoned(d)) ELSE UNCHANGED draft
  /\ UNCHANGED <<main, glock, pr, job, imp, pub, stuck, given, withdrawn>>

-----------------------------------------------------------------------------
(* Imports onto a draft (their leases and windows are JobLease's)          *)

\* create_import_job: on an open draft with no other import; one nothing will run is failed
\* first by the reaper's rules.
StartImport(d) ==
  /\ d \in Importing /\ Open(d) /\ imp[d] \in {"none", "overdue"}
  /\ imp' = [imp EXCEPT ![d] = "live"]
  /\ UNCHANGED <<main, glock, draft, pr, job, pub, sweeping, stuck, given, withdrawn>>

\* _apply_window: a commit on the draft; on a closed one the import fails.
ImportWindow(d, e) ==
  /\ ImportOn(d)
  /\ IF Open(d)
     THEN /\ e \in Fresh /\ draft[d].head < MaxHead
          /\ Put(d, Committed(draft[d], {e}))
          /\ given' = [given EXCEPT ![d] = @ \cup {e}]
          /\ UNCHANGED imp
     ELSE /\ imp' = [imp EXCEPT ![d] = "none"]
          /\ UNCHANGED <<draft, given>>
  /\ UNCHANGED <<main, glock, pr, job, pub, sweeping, stuck, withdrawn>>

\* The import completes or fails, waits in a quiet lane past the reaper's limit
\* (never_runs), or is claimed after all before the reaper came by.
ImportMoves(d) ==
  /\ \/ imp[d] # "none" /\ imp' = [imp EXCEPT ![d] = "none"]
     \/ imp[d] = "live" /\ imp' = [imp EXCEPT ![d] = "overdue"]
     \/ imp[d] = "overdue" /\ imp' = [imp EXCEPT ![d] = "late"]
  /\ UNCHANGED <<main, glock, draft, pr, job, pub, sweeping, stuck, given, withdrawn>>

-----------------------------------------------------------------------------
(* Reviews                                                                 *)

\* open_draft_mr reads the draft and its live PRs with no lock, computes the merge ...
OpenPR(i, d) ==
  /\ pr[i].status = "absent" /\ Open(d) /\ ~Live(d)
  /\ \E r \in BOOLEAN :
       PutPR(i, [NewPR EXCEPT !.status = "opening", !.draft = d, !.reviewed = r])
  /\ UNCHANGED <<main, glock, draft, job, imp, pub, sweeping, stuck, given, withdrawn>>

\* ... and inserts the row, which uq_mr_live_source_branch refuses beside a live one.
DuplicateNever(i) == FALSE
Duplicate(i) == Live(pr[i].draft)
InsertPR(i) ==
  /\ pr[i].status = "opening"
  /\ PutPR(i, IF Duplicate(i) THEN NewPR ELSE [pr[i] EXCEPT !.status = "live"])
  /\ UNCHANGED <<main, glock, draft, job, imp, pub, sweeping, stuck, given, withdrawn>>

\* approve_pr: the approval is of the branch's head now.
Approve(i) ==
  LET r == draft[pr[i].draft] IN
  /\ pr[i].status = "live"
  /\ PutPR(i, [pr[i] EXCEPT !.approval = [seq |-> r.head, own |-> r.own, rev |-> r.rev]])
  /\ UNCHANGED <<main, glock, draft, job, imp, pub, sweeping, stuck, given, withdrawn>>

\* update_pr: who must review it changes.
SetReviewers(i) ==
  /\ pr[i].status = "live"
  /\ PutPR(i, [pr[i] EXCEPT !.reviewed = ~@])
  /\ UNCHANGED <<main, glock, draft, job, imp, pub, sweeping, stuck, given, withdrawn>>

ClosePR(i) ==
  /\ pr[i].status = "live"
  /\ PutPR(i, [pr[i] EXCEPT !.status = "closed"])
  /\ UNCHANGED <<main, glock, draft, job, imp, pub, sweeping, stuck, given, withdrawn>>

\* _require_approvals on PR row r: no content commit since the approval.
ApprovedEver(r) == r.reviewed => r.approval.seq >= 0
Approved(r) == r.reviewed => r.approval.seq >= draft[r.draft].content

-----------------------------------------------------------------------------
(* A publish, or the merge of a review, by a request or a job's attempt    *)

\* publish called by a request.
Publish(p, d) ==
  /\ p \in Requests /\ pub[p].pc = "idle" /\ draft[d].status # "absent"
  /\ pub' = [pub EXCEPT ![p] = [Idle EXCEPT !.pc = "flush", !.draft = d]]
  /\ UNCHANGED <<main, glock, draft, pr, job, imp, sweeping, stuck, given, withdrawn>>

\* merge_mr called by a request.
Merge(p, i) ==
  /\ p \in Requests /\ pub[p].pc = "idle" /\ pr[i].status \in {"live", "merged", "closed"}
  /\ pub' = [pub EXCEPT ![p] = [Idle EXCEPT !.pc = "flush", !.draft = pr[i].draft, !.pr = i]]
  /\ UNCHANGED <<main, glock, draft, pr, job, imp, sweeping, stuck, given, withdrawn>>

Goto(p, pc) == pub' = [pub EXCEPT ![p] = [pub[p] EXCEPT !.pc = pc]]
Quit(p) == pub' = [pub EXCEPT ![p] = Idle]

\* A refusal is the request's answer; a job's attempt goes on to settle its job.
Refusal(p) == IF pub[p].job = NoJob THEN Quit(p) ELSE Goto(p, "refused")

\* _flush_pending_changes, in a transaction of its own.
Flush(p) ==
  LET d == pub[p].draft IN
  /\ pub[p].pc = "flush"
  /\ IF draft[d].pending # {} /\ ~OpenTo(p)
     THEN Refusal(p) /\ UNCHANGED <<draft, withdrawn>>
     ELSE \E W \in SUBSET draft[d].pending :
            /\ Put(d, Folded(draft[d], draft[d].pending \ W, W))
            /\ withdrawn' = withdrawn \cup W
            /\ Goto(p, "squash")
  /\ UNCHANGED <<main, glock, pr, job, imp, sweeping, stuck, given>>

\* merge_mr takes the graph lock and reads the PR, without the PR's lock.
ReadPR(p) ==
  LET q == pr[pub[p].pr] IN
  /\ pub[p].pc = "squash" /\ pub[p].pr # NoPR /\ Unlocked(p)
  /\ IF q.status = "live"
     THEN /\ glock' = p
          /\ pub' = [pub EXCEPT ![p] = [pub[p] EXCEPT !.pc = "merge", !.copy = q]]
     ELSE Refusal(p) /\ UNCHANGED glock
  /\ UNCHANGED <<main, draft, pr, job, imp, sweeping, stuck, given, withdrawn>>

\* Ready to squash, under the graph lock.
AtSquash(p) == \/ pub[p].pc = "squash" /\ pub[p].pr = NoPR /\ Unlocked(p)
               \/ pub[p].pc = "merge"

\* What publish and merge_mr check under the draft's lock, in their order: the draft is open,
\* no import runs on it (refusals), nothing is staged (_StaleHead: fold again), the review's
\* approvals stand, and main has not advanced past the draft's base (refusals).
StagedIgnored(p) == FALSE
Staged(p) == draft[pub[p].draft].pending # {}
UpToDateAny(p) == TRUE
UpToDate(p) == draft[pub[p].draft].base >= Len(main)
Admitted(p) == OpenTo(p) /\ ~ImportOn(pub[p].draft)
Gated(p) == /\ pub[p].pr # NoPR => Approved(pub[p].copy)
            /\ UpToDate(p)

SquashAgain(p) ==
  /\ AtSquash(p) /\ Admitted(p) /\ Staged(p)
  /\ Goto(p, "flush")
  /\ Free(p)
  /\ UNCHANGED <<main, draft, pr, job, imp, sweeping, stuck, given, withdrawn>>

SquashRefused(p) ==
  /\ AtSquash(p)
  /\ ~Admitted(p) \/ (~Staged(p) /\ ~Gated(p))
  /\ Refusal(p)
  /\ Free(p)
  /\ UNCHANGED <<main, draft, pr, job, imp, sweeping, stuck, given, withdrawn>>

\* The PRs a squash of draft d settles: every live one, and the one being merged, whatever has
\* become of its row since it was read.
Settled(p) == [i \in PRs |->
  IF i = pub[p].pr \/ (pr[i].status = "live" /\ pr[i].draft = pub[p].draft)
  THEN [pr[i] EXCEPT !.status = "merged"] ELSE pr[i]]

\* What _squash_up_to_date (or _apply_draft_squash, after a merge) writes onto main: the draft's
\* own edits, in one commit. With none, main stays as it is.
Squashed(p) ==
  LET r == draft[pub[p].draft] IN
  IF r.own = {} THEN main
  ELSE Append(main, [from |-> pub[p].draft, base |-> r.base, edits |-> r.own, rev |-> r.rev,
                     reviewed |-> pub[p].copy.reviewed, saw |-> pub[p].copy.approval])

\* The squash: main moves, the draft is merged and rebased onto it, its PRs are settled.
Squash(p) ==
  LET d == pub[p].draft IN
  /\ AtSquash(p) /\ Admitted(p) /\ ~Staged(p) /\ Gated(p)
  /\ main' = Squashed(p)
  /\ Put(d, [draft[d] EXCEPT !.status = "merged", !.base = Len(main'), !.idle = FALSE])
  /\ pr' = Settled(p)
  /\ IF pub[p].job = NoJob THEN Quit(p) ELSE Goto(p, "done")
  /\ Free(p)
  /\ UNCHANGED <<job, imp, sweeping, stuck, given, withdrawn>>

\* A refusal by permission, policy, conflict, ontology, or every retry lost.
Refuse(p) ==
  /\ pub[p].pc \in {"flush", "squash", "merge"}
  /\ Refusal(p)
  /\ Free(p)
  /\ UNCHANGED <<main, draft, pr, job, imp, sweeping, stuck, given, withdrawn>>

\* apply_ops on main, revert_commit and restore_to_commit: main moves on.
MainWrite ==
  /\ glock = Nobody /\ Len(main) < MaxMain
  /\ main' = Append(main, [from |-> NoDraft, base |-> Len(main), edits |-> {}, rev |-> 0,
                           reviewed |-> FALSE, saw |-> NoApproval])
  /\ UNCHANGED <<glock, draft, pr, job, imp, pub, sweeping, stuck, given, withdrawn>>

-----------------------------------------------------------------------------
(* Publish jobs                                                            *)

\* create_publish_job: the draft is closed for the job, which is stored queued.
Queue(j, d, i) ==
  /\ job[j].status = "absent" /\ Open(d) /\ ~ImportOn(d) /\ draft[d].base >= Len(main)
  /\ i # NoPR => pr[i].status = "live" /\ pr[i].draft = d /\ Approved(pr[i])
  /\ Put(d, [draft[d] EXCEPT !.status = "publishing", !.idle = FALSE])
  /\ job' = [job EXCEPT ![j] = [NewJob EXCEPT !.status = "pending", !.draft = d, !.pr = i]]
  /\ UNCHANGED <<main, glock, pr, imp, pub, sweeping, stuck, given, withdrawn>>

\* A slot claims a job queued, or one running whose worker went quiet, until it is poison.
ClaimJob(p, j) ==
  LET r == job[j]
      took == r.takeovers + (IF r.status = "running" THEN 1 ELSE 0)
      s == [r EXCEPT !.status = "running", !.epoch = @ + 1, !.takeovers = took] IN
  /\ p \in Slots /\ pub[p].pc = "idle" /\ r.status \in {"pending", "running"}
  /\ IF took > MaxRetries
     THEN /\ job' = [job EXCEPT ![j] = [r EXCEPT !.status = "failed", !.takeovers = took]]
          /\ UNCHANGED pub
     ELSE /\ job' = [job EXCEPT ![j] = s]
          /\ pub' = [pub EXCEPT ![p] = [Idle EXCEPT !.pc = "start", !.draft = r.draft,
                                            !.pr = r.pr, !.job = j, !.epoch = s.epoch]]
  /\ UNCHANGED <<main, glock, draft, pr, imp, sweeping, stuck, given, withdrawn>>

\* run_publish asks merged_commit_id first, and again after a refusal.
LandedOrClosed(p) == draft[pub[p].draft].status # "open"
LandedAlready(p) == draft[pub[p].draft].status = "merged"
RunPublish(p) ==
  /\ \/ pub[p].pc = "start" /\ Goto(p, IF LandedAlready(p) THEN "done" ELSE "flush")
     \/ pub[p].pc = "refused" /\ Goto(p, IF LandedAlready(p) THEN "done" ELSE "failing")
  /\ UNCHANGED <<main, glock, draft, pr, job, imp, sweeping, stuck, given, withdrawn>>

FencedJob(p) == /\ job[pub[p].job].epoch = pub[p].epoch
                /\ job[pub[p].job].status = "running"

\* The fenced finish; a superseded attempt leaves everything to the one that took over.
FinishJob(p) ==
  LET j == pub[p].job IN
  /\ pub[p].pc \in {"done", "failing"}
  /\ IF FencedJob(p)
     THEN /\ job' = [job EXCEPT ![j] = [job[j] EXCEPT
                       !.status = IF pub[p].pc = "done" THEN "completed" ELSE "failed"]]
          /\ IF pub[p].pc = "done" THEN Quit(p) ELSE Goto(p, "release")
     ELSE Quit(p) /\ UNCHANGED job
  /\ UNCHANGED <<main, glock, draft, pr, imp, sweeping, stuck, given, withdrawn>>

Reopened(d) == [draft[d] EXCEPT !.status = "open", !.idle = FALSE]
Stuck(d) == draft[d].status = "publishing" /\ ~JobOn(d)

\* release_publishing by the attempt that failed its job.
ReleaseOwn(p) ==
  LET d == pub[p].draft IN
  /\ pub[p].pc = "release"
  /\ IF Stuck(d) THEN Put(d, Reopened(d)) ELSE UNCHANGED draft
  /\ Quit(p)
  /\ UNCHANGED <<main, glock, pr, job, imp, sweeping, stuck, given, withdrawn>>

\* The attempt ends otherwise: an unexpected error fails the job (_run_safe).
Raise(p) ==
  /\ pub[p].job # NoJob /\ pub[p].pc # "release"
  /\ IF FencedJob(p)
     THEN job' = [job EXCEPT ![pub[p].job] = [job[pub[p].job] EXCEPT !.status = "failed"]]
     ELSE UNCHANGED job
  /\ Quit(p) /\ Free(p)
  /\ UNCHANGED <<main, draft, pr, imp, sweeping, stuck, given, withdrawn>>

\* The worker shuts down: the attempt is cancelled and its job handed back (_run_safe,
\* Lease.release).
Drain(p) ==
  /\ pub[p].job # NoJob /\ FencedJob(p) /\ pub[p].epoch < MaxEpoch
  /\ job' = [job EXCEPT ![pub[p].job] = [job[pub[p].job] EXCEPT !.status = "pending"]]
  /\ Quit(p) /\ Free(p)
  /\ UNCHANGED <<main, draft, pr, imp, sweeping, stuck, given, withdrawn>>

\* The process dies: its locks go with its connection.
Crash(p) ==
  /\ pub[p].pc # "idle"
  /\ Quit(p) /\ Free(p)
  /\ UNCHANGED <<main, draft, pr, job, imp, sweeping, stuck, given, withdrawn>>

\* JobReaper: queued too long in a quiet lane.
FailNotStarted(j) ==
  /\ job[j].status = "pending"
  /\ job' = [job EXCEPT ![j] = [job[j] EXCEPT !.status = "failed"]]
  /\ UNCHANGED <<main, glock, draft, pr, imp, pub, sweeping, stuck, given, withdrawn>>

\* release_publishing in the reaper's loop: one statement, whose jobs are read in the
\* snapshot it starts from ...
ReleaseRead ==
  /\ stuck = {}
  /\ stuck' = {d \in Drafts : Stuck(d)}
  /\ UNCHANGED <<main, glock, draft, pr, job, imp, pub, sweeping, given, withdrawn>>

\* ... and the branch row's status again if it has been written since.
StillStuck(d) == draft[d].status = "publishing"
ReleaseWrite(d) ==
  /\ d \in stuck
  /\ stuck' = stuck \ {d}
  /\ IF StillStuck(d) THEN Put(d, Reopened(d)) ELSE UNCHANGED draft
  /\ UNCHANGED <<main, glock, pr, job, imp, pub, sweeping, given, withdrawn>>

-----------------------------------------------------------------------------
Init ==
  /\ main = <<>>
  /\ glock = Nobody
  /\ draft = [d \in Drafts |-> NewDraft]
  /\ pr = [i \in PRs |-> NewPR]
  /\ job = [j \in PubJobs |-> NewJob]
  /\ imp = [d \in Drafts |-> "none"]
  /\ pub = [p \in Procs |-> Idle]
  /\ sweeping = {} /\ stuck = {}
  /\ given = [d \in Drafts |-> {}]
  /\ withdrawn = {}

Edit(d) ==
  \/ OpenDraft(d) \/ Checkpoint(d) \/ Pull(d) \/ Abandon(d) \/ GoIdle(d) \/ SweepWrite(d)
  \/ StartImport(d) \/ ImportMoves(d)
  \/ \E e \in Edits : Stage(d, e) \/ Save(d, e) \/ ImportWindow(d, e)

Review(i) ==
  InsertPR(i) \/ Approve(i) \/ SetReviewers(i) \/ ClosePR(i) \/ \E d \in Drafts : OpenPR(i, d)

\* A process's own progress.
Step(p) ==
  \/ Flush(p) \/ ReadPR(p) \/ Squash(p) \/ SquashAgain(p) \/ SquashRefused(p) \/ Refuse(p)
  \/ RunPublish(p) \/ FinishJob(p) \/ ReleaseOwn(p)

Next ==
  \/ \E d \in Drafts : Edit(d) \/ ReleaseWrite(d)
  \/ \E i \in PRs : Review(i)
  \/ \E p \in Procs :
       \/ Step(p) \/ Raise(p) \/ Drain(p) \/ Crash(p)
       \/ \E d \in Drafts : Publish(p, d)
       \/ \E i \in PRs : Merge(p, i)
       \/ \E j \in PubJobs : ClaimJob(p, j)
  \/ \E j \in PubJobs : \/ FailNotStarted(j)
                        \/ \E d \in Drafts, i \in PRs \cup {NoPR} : Queue(j, d, i)
  \/ SweepRead \/ ReleaseRead \/ MainWrite

Spec == Init /\ [][Next]_vars

\* A process goes on (every wait for a lock is bounded and ends in a refusal), idle slots poll
\* for jobs, and the reaper's loop comes round.
Fairness ==
  /\ \A p \in Procs : WF_vars(Step(p))
  /\ \A p \in Slots : WF_vars(\E j \in PubJobs : ClaimJob(p, j))
  /\ WF_vars(ReleaseRead)
  /\ \A d \in Drafts : WF_vars(ReleaseWrite(d))

FairSpec == Spec /\ Fairness

-----------------------------------------------------------------------------
(* Properties                                                              *)

\* Every variable has its type.
TypeOK ==
  /\ main \in Seq(Commit)
  /\ glock \in Procs \cup {Nobody}
  /\ draft \in [Drafts -> Draft]
  /\ pr \in [PRs -> PR]
  /\ job \in [PubJobs -> Job]
  /\ imp \in [Drafts -> {"none", "live", "overdue", "late"}]
  /\ pub \in [Procs -> Pub]
  /\ sweeping \in SUBSET Drafts /\ stuck \in SUBSET Drafts
  /\ given \in [Drafts -> SUBSET Edits]
  /\ withdrawn \in SUBSET Edits

\* What main has of draft d.
OnMain(d) == UNION {main[n].edits : n \in {k \in 1 .. Len(main) : main[k].from = d}}

\* publish and merge_mr: a publish drops no change. Every edit a merged draft ever accepted,
\* staged ones included, is on main, save those withdrawn with their author's access.
NothingLost ==
  \A d \in Drafts : draft[d].status = "merged" => given[d] \ withdrawn = OnMain(d)

\* run_publish: "a merged draft is not published twice". A draft is on main at most once, and
\* only if it is merged, whatever attempts, takeovers and requests raced for it.
SquashedOnce ==
  \A m, n \in 1 .. Len(main) : main[m].from # NoDraft =>
    /\ draft[main[m].from].status = "merged"
    /\ main[n].from = main[m].from => m = n

\* The require-up-to-date gate: a squash lands directly on the main its draft was based on, so
\* nothing another draft, a revert or a write-through put on main is overwritten unseen.
LandsOnItsBase ==
  \A n \in 1 .. Len(main) : main[n].base = n - 1

\* _approvals: a review with reviewers lands exactly what its approval was of, whatever was
\* staged, saved, imported or rewritten by a pull in between.
LandsWhatWasApproved ==
  \A n \in 1 .. Len(main) : main[n].reviewed =>
    main[n].saw.seq >= 0 /\ main[n].saw.own = main[n].edits /\ main[n].saw.rev = main[n].rev

\* uq_mr_live_source_branch: one live PR per draft, however the openers race.
OneLivePR ==
  \A i, k \in PRs :
    pr[i].status = "live" /\ pr[k].status = "live" /\ pr[i].draft = pr[k].draft => i = k

\* run_publish: a publish job reported completed has its draft on main.
CompletedLanded ==
  \A j \in PubJobs : job[j].status = "completed" => draft[job[j].draft].status = "merged"

\* _require_no_import, create_import_job: no draft is queued for publishing or merged under an
\* import that is still going to write onto it.
ImportHoldsDraft ==
  \A d \in Drafts : imp[d] = "live" => draft[d].status \notin {"publishing", "merged"}

\* _require_open: a merged or abandoned draft is inert, to sweeps, releases and superseded
\* attempts too.
ClosedIsInert ==
  [][\A d \in Drafts : draft[d].status \in {"merged", "abandoned"} => draft'[d] = draft[d]]_vars

\* release_publishing: a draft closed for a publish job comes back open, or merges.
PublishingEnds ==
  \A d \in Drafts : draft[d].status = "publishing" ~> draft[d].status # "publishing"

-----------------------------------------------------------------------------
(* The inductive strengthening of the safety properties                    *)

\* A row in use, and a process at work, name a draft.
NamesInv ==
  /\ \A i \in PRs : pr[i].status # "absent" => pr[i].draft \in Drafts
  /\ \A j \in PubJobs : job[j].status # "absent" => job[j].draft \in Drafts
  /\ \A p \in Procs : pub[p].pc # "idle" => pub[p].draft \in Drafts

\* A draft is based on a main that has been.
BaseInv == \A d \in Drafts : draft[d].base <= Len(main)

\* A draft's changes are what it was given, less what was withdrawn from it; an edit is on one
\* draft, and there staged or committed.
GivenInv ==
  /\ \A d \in Drafts :
       /\ draft[d].own \cup draft[d].pending = given[d] \ withdrawn
       /\ draft[d].own \cap draft[d].pending = {}
       /\ draft[d].status = "absent" => draft[d] = NewDraft
  /\ \A c, d \in Drafts : c # d => given[c] \cap given[d] = {}
  /\ withdrawn \subseteq UNION {given[d] : d \in Drafts}

\* A merged draft has nothing staged, and its own changes are what main has of it.
MergedInv ==
  \A d \in Drafts : draft[d].status = "merged" =>
    draft[d].pending = {} /\ draft[d].own = OnMain(d)

\* A job, and an attempt at one, stay on their draft and their review; an attempt that is done
\* has its draft merged.
AttemptInv ==
  /\ \A j \in PubJobs : job[j].pr # NoPR =>
       pr[job[j].pr].status \in {"live", "merged", "closed"} /\ pr[job[j].pr].draft = job[j].draft
  /\ \A p \in Procs :
       /\ pub[p].pr # NoPR =>
            pr[pub[p].pr].status \in {"live", "merged", "closed"} /\ pr[pub[p].pr].draft = pub[p].draft
       /\ pub[p].job # NoJob =>
            job[pub[p].job].status # "absent" /\ job[pub[p].job].draft = pub[p].draft
       /\ pub[p].pc \in {"start", "refused", "done", "failing", "release"} => pub[p].job # NoJob
       /\ pub[p].pc = "done" => draft[pub[p].draft].status = "merged"

\* An approval not older than its draft's content is of the draft as it is.
Covers(a, d) ==
  /\ a.seq <= draft[d].head
  /\ a.seq >= draft[d].content => a.own = draft[d].own /\ a.rev = draft[d].rev

ReviewInv ==
  /\ \A d \in Drafts : draft[d].content <= draft[d].head
  /\ \A i \in PRs : pr[i].status # "absent" => Covers(pr[i].approval, pr[i].draft)
  /\ \A p \in Procs :
       /\ pub[p].pr = NoPR => ~pub[p].copy.reviewed
       /\ pub[p].pc = "merge" =>
            pub[p].pr # NoPR /\ pub[p].copy.draft = pub[p].draft
            /\ Covers(pub[p].copy.approval, pub[p].draft)

\* What every step of drafts, reviews and publishes preserves together.
PublishInv ==
  /\ NamesInv /\ BaseInv /\ GivenInv /\ MergedInv /\ AttemptInv /\ ReviewInv
  /\ LandsOnItsBase /\ SquashedOnce /\ LandsWhatWasApproved
  /\ OneLivePR /\ CompletedLanded /\ ImportHoldsDraft

-----------------------------------------------------------------------------
(* What the code's comments promise                                        *)

\* close_pr: closing is terminal.
ClosedStaysClosed ==
  [][\A i \in PRs : pr[i].status = "closed" => pr'[i].status = "closed"]_vars

\* _apply_draft_squash: no live PR survives a squash of its source branch.
NoLivePRSurvives ==
  \A i \in PRs : pr[i].status = "live" => draft[pr[i].draft].status # "merged"

\* create_publish_job: the draft is closed to every other write until the job ends.
JobHoldsDraft ==
  \A j \in PubJobs : job[j].status \in {"pending", "running"} =>
    draft[job[j].draft].status \in {"publishing", "merged"}
=============================================================================
